---------------------------- MODULE Spec2Model ----------------------------
(***************************************************************************)
(* Model of the two MoviePilot plugins of this repository:                 *)
(*   - ImmortalWrtHosts  (src/__init__.py): hosts merge and router update  *)
(*   - PlexPartialScan   (src/plugins.v2/plexpartialscan/__init__.py)      *)
(*                                                                         *)
(* A Python str is modelled as a sequence of characters; a character is a  *)
(* one-character TLA+ string, except the characters outside ASCII, which   *)
(* have names (NBSP, BOM, LeftBracket, ...).  Python indices are           *)
(* 0-based, the sequences here are 1-based: the index i of the model is    *)
(* the index i-1 of the code.                                              *)
(***************************************************************************)
EXTENDS Integers, Sequences, FiniteSets, TLC

VARIABLES
    \* ---- ImmortalWrtHosts.__merge_hosts_with_local, applied as a function
    local_hosts,      \* argument local_hosts
    remote_hosts,     \* argument remote_hosts of the latest call
    merged_hosts,     \* value returned by the latest call
    merges,           \* number of calls made so far
    \* ---- ImmortalWrtHosts, one scheduled run after the other
    _ignore,          \* self._ignore
    _notify,          \* self._notify
    localFile,        \* content of the local hosts file, as readlines() sees it
    routerHosts,      \* /etc/hosts on the router
    routerBackup,     \* /etc/hosts.backup on the router (NoFile while absent)
    run,              \* record describing the latest run of fetch_and_update_hosts
    runs,             \* number of runs so far
    \* ---- PlexPartialScan.translate_path
    _path_library_mapping,   \* self._path_library_mapping
    _path_mapping_local,     \* self._path_mapping_local  (<<>> stands for None/"")
    _path_mapping_remote,    \* self._path_mapping_remote (<<>> stands for None/"")
    tr_path,                 \* argument local_path of the latest call
    tr_result,               \* value returned by the latest call
    tr_calls,                \* number of calls made so far
    \* ---- PlexPartialScan: the scan queue and its delayed task.  In the
    \* specification of the queue, _notify above is self._notify of this plugin.
    _scan_queue,             \* self._scan_queue
    _scheduler,              \* self._scheduler and the jobs it holds
    _library_mapping,        \* self._library_mapping, in insertion order
    _plex_url,               \* self._plex_url and self._plex_token (<<>>: not set)
    _rclone_rc_url,          \* self._rclone_rc_url (<<>>: not set)
    _refresh_rclone,         \* self._refresh_rclone
    now,                     \* datetime.now(), counted in events
    event,                   \* record describing the latest TransferComplete event
    drain,                   \* record describing the latest run of process_scan_queue
    drains,                  \* number of runs of process_scan_queue so far
    attempted,               \* the rescans of the earlier runs: directory and time
    during,                  \* the time stamps of the items appended while a run was in progress
    \* ---- One plugin instance from init_plugin to stop_service
    plugin,                  \* the class of the instance
    _enabled,                \* self._enabled
    _auto_scan,              \* self._auto_scan
    _onlyonce,               \* self._onlyonce
    saved,                   \* the configuration the host has persisted
    oper,                    \* record describing the latest operation on the instance
    inits,                   \* number of calls of init_plugin so far
    opers,                   \* number of API calls and connection tests so far
    handled                  \* the time stamps of the items a run has dealt with

varsMerge == <<local_hosts, remote_hosts, merged_hosts, merges>>
varsHosts == <<_notify, localFile, routerHosts, routerBackup, run, runs>>
varsPlex  == <<_path_library_mapping, _path_mapping_local, _path_mapping_remote,
               tr_path, tr_result, tr_calls>>
varsQueue == <<_scan_queue, _scheduler, _library_mapping, _plex_url, _rclone_rc_url,
               _refresh_rclone, now, event, drain, drains, attempted, during>>
varsLife == <<plugin, _enabled, _auto_scan, _onlyonce, saved, oper, inits, opers, handled>>
vars == <<varsMerge, _ignore, varsHosts, varsPlex, varsQueue, varsLife>>

----------------------------------------------------------------------------
(* Characters and the str methods the code uses *)

NBSP == "NBSP"
BOM == "BOM"

\* Characters for which str.isspace() holds (what str.strip() removes and the
\* regular expression \s matches), among the characters of the model.
WhiteSpace == {" ", "\t", NBSP}

Digits == {"0", "1", "2", "3", "4", "5", "6", "7", "8", "9"}

HexDigits == Digits \cup {"a", "b", "c", "d", "e", "f"}

DigitVal(c) ==
    CASE c = "0" -> 0 [] c = "1" -> 1 [] c = "2" -> 2 [] c = "3" -> 3
      [] c = "4" -> 4 [] c = "5" -> 5 [] c = "6" -> 6 [] c = "7" -> 7
      [] c = "8" -> 8 [] c = "9" -> 9

\* str.startswith
StartsWith(s, t) ==
    /\ Len(t) <= Len(s)
    /\ SubSeq(s, 1, Len(t)) = t

\* str.endswith
EndsWith(s, t) ==
    /\ Len(t) <= Len(s)
    /\ SubSeq(s, Len(s) - Len(t) + 1, Len(s)) = t

\* t in s
Contains(s, t) ==
    \E i \in 0..(Len(s) - Len(t)) : SubSeq(s, i + 1, i + Len(t)) = t

\* str.lstrip(chars)
RECURSIVE LStripChars(_, _)
LStripChars(s, chars) ==
    IF s # <<>> /\ Head(s) \in chars THEN LStripChars(Tail(s), chars) ELSE s

\* str.rstrip(chars)
RECURSIVE RStripChars(_, _)
RStripChars(s, chars) ==
    IF s # <<>> /\ s[Len(s)] \in chars
    THEN RStripChars(SubSeq(s, 1, Len(s) - 1), chars)
    ELSE s

\* str.strip()
Strip(s) == RStripChars(LStripChars(s, WhiteSpace), WhiteSpace)

\* str.split(sep) for a one-character separator: every occurrence splits.
RECURSIVE SplitFrom(_, _, _, _, _)
SplitFrom(s, sep, i, cur, acc) ==
    IF i > Len(s) THEN Append(acc, cur)
    ELSE IF s[i] = sep THEN SplitFrom(s, sep, i + 1, <<>>, Append(acc, cur))
    ELSE SplitFrom(s, sep, i + 1, Append(cur, s[i]), acc)

SplitOn(s, sep) == SplitFrom(s, sep, 1, <<>>, <<>>)

\* re.split(r'\s+', s): every maximal run of whitespace splits.
RECURSIVE ReSplitFrom(_, _, _, _)
ReSplitFrom(s, i, cur, acc) ==
    IF i > Len(s) THEN Append(acc, cur)
    ELSE IF s[i] \in WhiteSpace
         THEN IF i > 1 /\ s[i - 1] \in WhiteSpace
              THEN ReSplitFrom(s, i + 1, cur, acc)
              ELSE ReSplitFrom(s, i + 1, <<>>, Append(acc, cur))
         ELSE ReSplitFrom(s, i + 1, Append(cur, s[i]), acc)

ReSplitWhitespace(s) == ReSplitFrom(s, 1, <<>>, <<>>)

\* x in list
InList(x, list) == \E i \in 1..Len(list) : list[i] = x

----------------------------------------------------------------------------
(* ipaddress.ip_address, as far as __should_ignore_ip observes it *)

\* One decimal octet of ipaddress.IPv4Address: 1 to 3 ASCII digits, no
\* leading zero, value at most 255.
OctetValue(o) ==
    IF Len(o) = 1 THEN DigitVal(o[1])
    ELSE IF Len(o) = 2 THEN 10 * DigitVal(o[1]) + DigitVal(o[2])
    ELSE 100 * DigitVal(o[1]) + 10 * DigitVal(o[2]) + DigitVal(o[3])

IsOctet(o) ==
    /\ Len(o) \in 1..3
    /\ \A i \in 1..Len(o) : o[i] \in Digits
    /\ (Len(o) > 1 => o[1] # "0")
    /\ OctetValue(o) <= 255

IsIPv4(ip) ==
    LET octets == SplitOn(ip, ".")
    IN  /\ Len(octets) = 4
        /\ \A i \in 1..4 : IsOctet(octets[i])

\* IPv4Address.is_loopback: the address is in 127.0.0.0/8.
IsIPv4Loopback(ip) ==
    /\ IsIPv4(ip)
    /\ OctetValue(SplitOn(ip, ".")[1]) = 127

IsHextet(h) ==
    /\ Len(h) \in 1..4
    /\ \A i \in 1..Len(h) : h[i] \in HexDigits

\* ipaddress.IPv6Address (no scope id: the model has no '%' character).
IsIPv6(ip) ==
    LET raw == SplitOn(ip, ":")
        hasV4 == Len(raw) >= 1 /\ InList(".", raw[Len(raw)])
        \* an embedded IPv4 suffix is replaced by two hextets
        parts == IF hasV4
                 THEN SubSeq(raw, 1, Len(raw) - 1) \o <<<<"0">>, <<"0">>>>
                 ELSE raw
        n == Len(parts)
        skips == {i \in 2..(n - 1) : parts[i] = <<>>}
        skip == CHOOSE i \in skips : TRUE
        hi == IF parts[1] = <<>> THEN skip - 2 ELSE skip - 1
        lo == IF parts[n] = <<>> THEN n - skip - 1 ELSE n - skip
    IN  /\ Len(raw) >= 3
        /\ (hasV4 => IsIPv4(raw[Len(raw)]))
        /\ n <= 9
        /\ Cardinality(skips) <= 1
        /\ IF skips # {}
           THEN /\ (parts[1] = <<>> => skip = 2)
                /\ (parts[n] = <<>> => skip = n - 1)
                /\ 8 - (hi + lo) >= 1
                /\ \A i \in 1..n : parts[i] # <<>> => IsHextet(parts[i])
           ELSE /\ n = 8
                /\ \A i \in 1..n : IsHextet(parts[i])

\* __should_ignore_ip without the test of version == 6.
ShouldIgnoreIpLoopbackOnly(ip) == IsIPv4Loopback(ip)

\* __should_ignore_ip: loopback, or any IPv6 address; a token that is no IP
\* address (ValueError) is not ignored.
ShouldIgnoreIp(ip) ==
    IF IsIPv4(ip) THEN IsIPv4Loopback(ip) ELSE IsIPv6(ip)


----------------------------------------------------------------------------
(* ImmortalWrtHosts.__merge_hosts_with_local *)

Localhost == <<"l", "o", "c", "a", "l", "h", "o", "s", "t">>

\* ignore = self._ignore.split("|") if self._ignore else []
\* ignore.extend(["localhost"])
IgnoreList(ignoreCfg) ==
    (IF ignoreCfg # <<>> THEN SplitOn(ignoreCfg, "|") ELSE <<>>) \o <<Localhost>>

\* The test of the first loop: the stripped remote line is no comment, is
\* not empty and contains a blank or a tab.
RemoteLineIsEntry(line) ==
    LET line_stripped == Strip(line)
    IN  /\ ~StartsWith(line_stripped, <<"#">>)
        /\ line_stripped # <<>>
        /\ (InList(" ", line_stripped) \/ InList("\t", line_stripped))

\* if not self.__should_ignore_ip(ip) and hostname not in ignore and ip not in ignore
TokensEligible(ip, hostname, ignore) ==
    /\ ~ShouldIgnoreIp(ip)
    /\ ~InList(hostname, ignore)
    /\ ~InList(ip, ignore)

\* The remote line is recorded in hostname_to_line_index.
RemoteLineEligible(line, ignore) ==
    /\ RemoteLineIsEntry(line)
    /\ LET parts == ReSplitWhitespace(Strip(line))
       IN  /\ Len(parts) > 1
           /\ TokensEligible(parts[1], parts[2], ignore)

\* hostname_to_line_index that keeps the first line of a hostname, not the last.
hostname_to_line_index_first(remote, ignore) ==
    LET eligible == {i \in 1..Len(remote) : RemoteLineEligible(remote[i], ignore)}
        hostnames == {ReSplitWhitespace(Strip(remote[i]))[2] : i \in eligible}
    IN  [h \in hostnames |->
            CHOOSE i \in eligible :
                /\ ReSplitWhitespace(Strip(remote[i]))[2] = h
                /\ \A j \in eligible :
                      ReSplitWhitespace(Strip(remote[j]))[2] = h => i <= j]

\* First loop: hostname_to_line_index after the remote lines from i on, a
\* function from hostnames to indices; a later line overwrites the index.
RECURSIVE RemoteIndexFrom(_, _, _, _)
RemoteIndexFrom(remote, ignore, i, index) ==
    IF i > Len(remote) THEN index
    ELSE IF RemoteLineEligible(remote[i], ignore)
         THEN LET hostname == ReSplitWhitespace(Strip(remote[i]))[2]
              IN  RemoteIndexFrom(remote, ignore, i + 1,
                      [h \in (DOMAIN index) \cup {hostname} |->
                          IF h = hostname THEN i ELSE index[h]])
         ELSE RemoteIndexFrom(remote, ignore, i + 1, index)

hostname_to_line_index(remote, ignore) ==
    RemoteIndexFrom(remote, ignore, 1, <<>>)

\* line = line.lstrip("\ufeff").strip()
LocalLineText(line) == Strip(LStripChars(line, {BOM}))

\* The tests of the second loop without the substring test on the line.
LocalLineEligibleExact(line, ignore) ==
    LET text == LocalLineText(line)
        parts == ReSplitWhitespace(text)
    IN  /\ ~StartsWith(text, <<"#">>)
        /\ text # <<>>
        /\ Len(parts) >= 2
        /\ TokensEligible(parts[1], parts[2], ignore)

\* The local line passes every test of the second loop.
LocalLineEligible(line, ignore) ==
    LET text == LocalLineText(line)
        parts == ReSplitWhitespace(text)
    IN  /\ ~StartsWith(text, <<"#">>)
        /\ ~(\E k \in 1..Len(ignore) : Contains(text, ignore[k]))
        /\ text # <<>>
        /\ Len(parts) >= 2
        /\ TokensEligible(parts[1], parts[2], ignore)

\* local_updates kept as a list of items: every line adds an item.
DictSetAppend(dict, key, value) == Append(dict, <<key, value>>)

\* local_updates[hostname] = line on a dict that keeps insertion order: a
\* known key keeps its place and takes the new value, a new key goes last.
DictSet(dict, key, value) ==
    IF \E k \in 1..Len(dict) : dict[k][1] = key
    THEN [k \in 1..Len(dict) |->
             IF dict[k][1] = key THEN <<key, value>> ELSE dict[k]]
    ELSE Append(dict, <<key, value>>)

\* Second loop: local_updates as the sequence of its (hostname, line) items.
RECURSIVE LocalUpdatesFrom(_, _, _, _)
LocalUpdatesFrom(local, ignore, i, updates) ==
    IF i > Len(local) THEN updates
    ELSE IF LocalLineEligible(local[i], ignore)
         THEN LET text == LocalLineText(local[i])
              IN  LocalUpdatesFrom(local, ignore, i + 1,
                      DictSet(updates, ReSplitWhitespace(text)[2], text))
         ELSE LocalUpdatesFrom(local, ignore, i + 1, updates)

local_updates(local, ignore) == LocalUpdatesFrom(local, ignore, 1, <<>>)

\* Third loop: overwrite the recorded line of a known hostname, append the
\* line of an unknown one.
RECURSIVE ApplyUpdatesFrom(_, _, _, _)
ApplyUpdatesFrom(updates, index, k, merged) ==
    IF k > Len(updates) THEN merged
    ELSE LET hostname == updates[k][1]
             new_line == updates[k][2]
         IN  IF hostname \in DOMAIN index
             THEN ApplyUpdatesFrom(updates, index, k + 1,
                      [merged EXCEPT ![index[hostname]] = new_line])
             ELSE ApplyUpdatesFrom(updates, index, k + 1,
                      Append(merged, new_line))

\* The merge with merged_hosts.append(line_stripped) in the first loop.
MergeHostsWithLocalStripped(local, remote, ignoreCfg) ==
    LET ignore == IgnoreList(ignoreCfg)
    IN  ApplyUpdatesFrom(local_updates(local, ignore),
                         hostname_to_line_index(remote, ignore),
                         1, [i \in 1..Len(remote) |-> Strip(remote[i])])

\* __merge_hosts_with_local(local_hosts, remote_hosts).  No statement of the
\* try block raises on lists of str, so the except branch is never taken.
MergeHostsWithLocal(local, remote, ignoreCfg) ==
    LET ignore == IgnoreList(ignoreCfg)
    IN  ApplyUpdatesFrom(local_updates(local, ignore),
                         hostname_to_line_index(remote, ignore),
                         1, remote)

----------------------------------------------------------------------------
(* Inputs of the hosts merge *)

MaxLocal == 2       \* most lines of a local hosts file
MaxRemote == 2      \* most lines of a remote hosts file
MaxMerges == 2      \* most successive calls of the merge

Ip1 == <<"1", ".", "1", ".", "1", ".", "1">>
Ip2 == <<"1", ".", "1", ".", "1", ".", "2">>
Ip9 == <<"1", ".", "1", ".", "1", ".", "9">>
IpLoopback == <<"1", "2", "7", ".", "0", ".", "0", ".", "1">>
IpV6 == <<":", ":", "1">>

\* Lines of a local hosts file: entries separated by a blank, by a tab and
\* by a no-break space, one with a byte-order mark and surrounding
\* whitespace, a loopback and an IPv6 entry, an entry whose hostname contains
\* the ignore token "ig".
LocalPool ==
    { Ip1 \o <<" ", "a">>,
      <<BOM, " ">> \o Ip2 \o <<"\t", "a", " ">>,
      Ip2 \o <<NBSP, "b", "i", "g">>,
      IpLoopback \o <<" ", "a">>,
      IpV6 \o <<" ", "a">> }

\* Lines of a remote hosts file: entries (one with a leading blank, a tab
\* and an alias), a loopback entry, an entry whose hostname is the ignore
\* token "ig", one whose address is the ignore token "1.1.1.9", a comment, a
\* blank line.
RemotePool ==
    { Ip9 \o <<" ", "a">>,
      <<" ">> \o Ip2 \o <<"\t", "a", " ", "x">>,
      IpLoopback \o <<" ", "a">>,
      Ip1 \o <<" ", "i", "g">>,
      <<"#", " ", "a">>,
      <<>> }

\* Values of self._ignore: not set, and "ig|1.1.1.9".
IgnorePool == { <<>>, <<"i", "g", "|">> \o Ip9 }

\* A file that does not exist.
NoFile == <<"absent">>

\* The sequences over S of length at most n.
SeqUpTo(S, n) == UNION {[1..k -> S] : k \in 0..n}

\* The absent value (Python None), no str.
None == <<"None">>

\* self._scheduler = None: no scheduler, hence no job.
NoScheduler == [set |-> FALSE, running |-> FALSE, jobs |-> <<>>]

\* The variables of the scan queue, while it is not modelled.
QueueIdle ==
    /\ _scan_queue = <<>>
    /\ _scheduler = NoScheduler
    /\ _library_mapping = <<>>
    /\ _plex_url = <<>>
    /\ _rclone_rc_url = <<>>
    /\ _refresh_rclone = TRUE
    /\ now = 0
    /\ event = [kind |-> "none"]
    /\ drain = [phase |-> "none"]
    /\ drains = 0
    /\ attempted = {}
    /\ during = {}

\* The classes of the two plugins.
HostsPlugin == "ImmortalWrtHosts"
PlexPlugin == "PlexPartialScan"

\* The variables of the life of the instance, while init_plugin and
\* stop_service are not modelled: the instance is enabled and stays so.
LifeIdle(class) ==
    /\ plugin = class
    /\ _enabled = TRUE
    /\ _auto_scan = TRUE
    /\ _onlyonce = FALSE
    /\ saved = [onlyonce |-> FALSE]
    /\ oper = [kind |-> "none"]
    /\ inits = 0
    /\ opers = 0
    /\ handled = {}

\* The variables of the scheduled runs, while no run is modelled.
HostsIdle ==
    /\ _notify = FALSE
    /\ localFile = <<>>
    /\ routerHosts = <<>>
    /\ routerBackup = NoFile
    /\ run = [phase |-> "none"]
    /\ runs = 0

\* The variables of the path translation, while no call is modelled.
PlexIdle ==
    /\ _path_library_mapping = <<>>
    /\ _path_mapping_local = <<>>
    /\ _path_mapping_remote = <<>>
    /\ tr_path = <<>>
    /\ tr_result = <<>>
    /\ tr_calls = 0

InitMerge ==
    /\ local_hosts \in SeqUpTo(LocalPool, MaxLocal)
    /\ remote_hosts \in SeqUpTo(RemotePool, MaxRemote)
    /\ _ignore \in IgnorePool
    /\ merged_hosts = <<>>
    /\ merges = 0
    /\ HostsIdle
    /\ PlexIdle
    /\ QueueIdle
    /\ LifeIdle(HostsPlugin)

\* One call of __merge_hosts_with_local; from the second call on, the remote
\* lines are the lines the call before returned.
MergeHosts ==
    /\ merges < MaxMerges
    /\ remote_hosts' = IF merges = 0 THEN remote_hosts ELSE merged_hosts
    /\ merged_hosts' = MergeHostsWithLocal(local_hosts, remote_hosts', _ignore)
    /\ merges' = merges + 1
    /\ UNCHANGED <<local_hosts, _ignore, varsHosts, varsPlex, varsQueue, varsLife>>

NextMerge == MergeHosts

SpecMerge == InitMerge /\ [][NextMerge]_vars

----------------------------------------------------------------------------
(* ImmortalWrtHosts.fetch_and_update_hosts: one scheduled run *)

MaxFileLines == 1   \* most lines of a hosts file in a modelled run
MaxRuns == 1        \* most runs

\* str.splitlines() on a text whose only line break is "\n": the pieces
\* between the line breaks, without an empty piece after a final break.
SplitLines(text) ==
    LET pieces == SplitOn(text, "\n")
    IN  IF pieces[Len(pieces)] = <<>>
        THEN SubSeq(pieces, 1, Len(pieces) - 1)
        ELSE pieces

\* '\n'.join(lines)
RECURSIVE JoinLines(_)
JoinLines(lines) ==
    IF lines = <<>> THEN <<>>
    ELSE IF Len(lines) = 1 THEN lines[1]
    ELSE lines[1] \o <<"\n">> \o JoinLines(Tail(lines))

\* What the shell writes for: echo "{hosts_string}" > /etc/hosts (no
\* character of the model is special between double quotes).
EchoOutput(hosts_string) == hosts_string \o <<"\n">>

\* The text of a hosts file that holds the given lines.
FileText(lines) == IF lines = <<>> THEN <<>> ELSE EchoOutput(JoinLines(lines))

LocalFilePool == { Ip1 \o <<" ", "a">>, <<"#", " ", "a">> }

RouterFilePool == { Ip9 \o <<" ", "a">>, <<"#", " ", "a">> }

\* Commands sent to the router
CmdCat == "cat /etc/hosts"
CmdBackup == "cp /etc/hosts /etc/hosts.backup"
CmdWrite == "echo ... > /etc/hosts"

\* Texts of the notifications
MsgLocalFailed == "local hosts failed"
MsgSshFailed == "ssh connection failed"
MsgUpdateOk == "hosts updated"
MsgUpdateError == "hosts update failed"
MsgUpdateException == "hosts update exception"

\* How __fetch_remote_hosts can end: no SSH connection, the command or the
\* read of its output raises, or the lines are read.
FetchOutcomes == {"no connection", "raises", "ok"}

\* How __update_router_hosts can end: no SSH connection, exec_command of the
\* copy raises, exec_command of the write raises, the read of the write's
\* stderr raises, the write reports on stderr, or the write succeeds.
UpdateOutcomes ==
    {"no connection", "copy raises", "write raises", "read raises", "stderr", "ok"}

\* __send_message: post_message is called only when self._notify is set.
SendMessage(notify, messages, text) ==
    IF notify THEN Append(messages, text) ELSE messages

\* __get_local_hosts: the lines of the local file without their line ends,
\* or [] when the file cannot be read.
GetLocalHosts(text, readable) ==
    IF readable
    THEN [k \in 1..Len(SplitLines(text)) |->
             RStripChars(SplitLines(text)[k], {"\n", "\r"})]
    ELSE <<>>

\* __fetch_remote_hosts: [] when no connection is made or the command
\* raises, else the lines of the router's file.
FetchRemoteHosts(text, outcome) ==
    IF outcome = "no connection"
    THEN [lines |-> <<>>, commands |-> <<>>, ok |-> FALSE]
    ELSE IF outcome = "raises"
    THEN [lines |-> <<>>, commands |-> <<CmdCat>>, ok |-> FALSE]
    ELSE [lines |-> SplitLines(text), commands |-> <<CmdCat>>, ok |-> TRUE]

\* __update_router_hosts with the copy issued after the write.
UpdateRouterHostsWriteFirst(hosts_content, router, backup, outcome) ==
    IF outcome = "no connection"
    THEN [commands |-> <<>>, text |-> MsgSshFailed,
          router |-> router, backup |-> backup]
    ELSE [commands |-> <<CmdWrite, CmdBackup>>, text |-> MsgUpdateOk,
          router |-> EchoOutput(JoinLines(hosts_content)),
          backup |-> EchoOutput(JoinLines(hosts_content))]

\* __update_router_hosts: the commands sent, the notification text, and the
\* two files of the router afterwards.
UpdateRouterHosts(hosts_content, router, backup, outcome) ==
    IF outcome = "no connection"
    THEN [commands |-> <<>>, text |-> MsgSshFailed,
          router |-> router, backup |-> backup]
    ELSE IF outcome = "copy raises"
    THEN [commands |-> <<>>, text |-> MsgUpdateException,
          router |-> router, backup |-> backup]
    ELSE IF outcome = "write raises"
    THEN [commands |-> <<CmdBackup>>, text |-> MsgUpdateException,
          router |-> router, backup |-> router]
    ELSE IF outcome = "read raises"
    THEN [commands |-> <<CmdBackup, CmdWrite>>, text |-> MsgUpdateException,
          router |-> EchoOutput(JoinLines(hosts_content)), backup |-> router]
    ELSE IF outcome = "stderr"
    THEN [commands |-> <<CmdBackup, CmdWrite>>, text |-> MsgUpdateError,
          router |-> router, backup |-> router]
    ELSE [commands |-> <<CmdBackup, CmdWrite>>, text |-> MsgUpdateOk,
          router |-> EchoOutput(JoinLines(hosts_content)), backup |-> router]

\* fetch_and_update_hosts without the return on an empty local_hosts.
NoLocalHostsIgnored(local) == FALSE

\* if not local_hosts
NoLocalHosts(local) == local = <<>>

\* fetch_and_update_hosts, with the outcomes of its calls on the local file
\* and on the router as parameters.
FetchAndUpdateHosts(readable, fetchOutcome, updateOutcome) ==
    LET local == GetLocalHosts(localFile, readable)
        fetch == FetchRemoteHosts(routerHosts, fetchOutcome)
        updated_hosts == MergeHostsWithLocal(local, fetch.lines, _ignore)
        update == UpdateRouterHosts(updated_hosts, routerHosts, routerBackup,
                                    updateOutcome)
    IN  IF NoLocalHosts(local)
        THEN /\ run' = [phase |-> "local failed", local |-> local,
                        fetch |-> "none", merged |-> <<>>, commands |-> <<>>,
                        messages |-> SendMessage(_notify, <<>>, MsgLocalFailed),
                        before |-> routerHosts]
             /\ UNCHANGED <<routerHosts, routerBackup>>
        ELSE IF updated_hosts = <<>>
        THEN /\ run' = [phase |-> "nothing to update", local |-> local,
                        fetch |-> IF fetch.ok THEN "ok" ELSE "failed",
                        merged |-> updated_hosts, commands |-> fetch.commands,
                        messages |-> <<>>, before |-> routerHosts]
             /\ UNCHANGED <<routerHosts, routerBackup>>
        ELSE /\ run' = [phase |-> "updated", local |-> local,
                        fetch |-> IF fetch.ok THEN "ok" ELSE "failed",
                        merged |-> updated_hosts,
                        commands |-> fetch.commands \o update.commands,
                        messages |-> SendMessage(_notify, <<>>, update.text),
                        before |-> routerHosts]
             /\ routerHosts' = update.router
             /\ routerBackup' = update.backup

\* The scheduler calls fetch_and_update_hosts.
RunFetchAndUpdateHosts ==
    /\ runs < MaxRuns
    /\ \E readable \in BOOLEAN, fetchOutcome \in FetchOutcomes,
          updateOutcome \in UpdateOutcomes :
          FetchAndUpdateHosts(readable, fetchOutcome, updateOutcome)
    /\ runs' = runs + 1
    /\ UNCHANGED <<_notify, localFile, _ignore, varsMerge, varsPlex, varsQueue, varsLife>>

\* The variables of the merge applied as a function, while unused.
MergeIdle ==
    /\ local_hosts = <<>>
    /\ remote_hosts = <<>>
    /\ merged_hosts = <<>>
    /\ merges = 0

InitHosts ==
    /\ localFile \in {FileText(lines) : lines \in SeqUpTo(LocalFilePool, MaxFileLines)}
    /\ routerHosts \in {FileText(lines) : lines \in SeqUpTo(RouterFilePool, MaxFileLines)}
    /\ routerBackup = NoFile
    /\ _notify \in BOOLEAN
    /\ _ignore \in IgnorePool
    /\ run = [phase |-> "none"]
    /\ runs = 0
    /\ MergeIdle
    /\ PlexIdle
    /\ QueueIdle
    /\ LifeIdle(HostsPlugin)

NextHosts == RunFetchAndUpdateHosts

SpecHosts == InitHosts /\ [][NextHosts]_vars

----------------------------------------------------------------------------
(* PlexPartialScan.translate_path *)

\* The brackets U+3010 and U+3011.
LeftBracket == "LeftBracket"
RightBracket == "RightBracket"

\* The prefix of a 115 network-drive path.
Marker == <<LeftBracket, "u", "1", "1", "5", RightBracket>>

\* str.replace("\\", "/")
Normalize(s) == [i \in 1..Len(s) |-> IF s[i] = "\\" THEN "/" ELSE s[i]]

\* str.replace(old, new) without the count: every occurrence of old, from the
\* left and without overlap, is replaced.
RECURSIVE ReplaceEveryFrom(_, _, _, _, _)
ReplaceEveryFrom(s, old, new, i, acc) ==
    IF i > Len(s) THEN acc
    ELSE IF i + Len(old) - 1 <= Len(s) /\ SubSeq(s, i, i + Len(old) - 1) = old
         THEN ReplaceEveryFrom(s, old, new, i + Len(old), acc \o new)
         ELSE ReplaceEveryFrom(s, old, new, i + 1, Append(acc, s[i]))

ReplaceEvery(s, old, new) ==
    IF old = <<>> THEN s ELSE ReplaceEveryFrom(s, old, new, 1, <<>>)

\* str.replace(old, new, 1): the first occurrence of old is replaced.
Replace1(s, old, new) ==
    LET at == {i \in 0..(Len(s) - Len(old)) : SubSeq(s, i + 1, i + Len(old)) = old}
        first == CHOOSE i \in at : \A j \in at : i <= j
    IN  IF at = {} THEN s
        ELSE SubSeq(s, 1, first) \o new \o SubSeq(s, first + Len(old) + 1, Len(s))

\* prefix if prefix.endswith("/") else prefix + "/"
WithSlash(prefix) == IF EndsWith(prefix, <<"/">>) THEN prefix ELSE prefix \o <<"/">>

\* path[1:] if path.startswith("/") else path
WithoutLeadingSlash(path) == IF StartsWith(path, <<"/">>) THEN Tail(path) ELSE path

\* The test of the loops without the "/" at the end of the prefix.
TripleMatchesAnywhere(path_normalized, mapping) ==
    StartsWith(path_normalized, Normalize(mapping.local))

\* The test of the two loops over self._path_library_mapping.
TripleMatches(path_normalized, mapping) ==
    LET local_prefix == Normalize(mapping.local)
    IN  \/ StartsWith(path_normalized, WithSlash(local_prefix))
        \/ path_normalized = local_prefix

\* The loops over self._path_library_mapping (lines 874-894 and 959-976),
\* from rule k on: the result of the first rule that matches.
RECURSIVE TripleMappingFrom(_, _, _)
TripleMappingFrom(path_normalized, mappings, k) ==
    IF k > Len(mappings) THEN [matched |-> FALSE]
    ELSE IF TripleMatches(path_normalized, mappings[k])
         THEN [matched |-> TRUE,
               result |-> <<Replace1(path_normalized,
                                     Normalize(mappings[k].local),
                                     Normalize(mappings[k].remote)),
                            mappings[k].library_id>>]
         ELSE TripleMappingFrom(path_normalized, mappings, k + 1)

\* The loop without its return: the last rule that matches decides.
TripleMappingLast(path_normalized, mappings) ==
    LET matching == {k \in 1..Len(mappings) :
                        TripleMatches(path_normalized, mappings[k])}
        last == CHOOSE k \in matching : \A j \in matching : j <= k
    IN  IF matching = {} THEN [matched |-> FALSE]
        ELSE [matched |-> TRUE,
              result |-> <<Replace1(path_normalized,
                                    Normalize(mappings[last].local),
                                    Normalize(mappings[last].remote)),
                           mappings[last].library_id>>]

TripleMapping(path_normalized, mappings) ==
    TripleMappingFrom(path_normalized, mappings, 1)

\* Lines 941-954: the remote prefix in front of the path.
SimpleMapping(path_without_prefix, mapping_remote) ==
    <<WithSlash(Normalize(mapping_remote)) \o WithoutLeadingSlash(path_without_prefix),
      None>>

\* Lines 902-954: the pair mapping on a 115 path, and the simple mapping when
\* the local prefix does not match.
AdvancedMapping(path_without_prefix, mapping_local, mapping_remote) ==
    LET local_prefix == LStripChars(WithSlash(Normalize(mapping_local)), {"/"})
        remote_prefix == LStripChars(WithSlash(Normalize(mapping_remote)), {"/"})
        path == WithoutLeadingSlash(Normalize(path_without_prefix))
        remote_path == Replace1(path, local_prefix, remote_prefix)
    IN  IF StartsWith(path, local_prefix)
        THEN <<IF StartsWith(remote_path, <<"/">>)
               THEN remote_path ELSE <<"/">> \o remote_path,
               None>>
        ELSE SimpleMapping(path, mapping_remote)

\* A path that starts with the marker, with the separators of the remainder
\* normalised before anything else is done with it.
TranslateMarkerPathNormalized(local_path, mappings, mapping_local, mapping_remote) ==
    LET path_without_prefix == Normalize(Replace1(local_path, Marker, <<>>))
        triple == TripleMapping(path_without_prefix, mappings)
    IN  IF triple.matched THEN triple.result
        ELSE IF mapping_remote = <<>> THEN <<path_without_prefix, None>>
        ELSE IF mapping_local # <<>>
             THEN AdvancedMapping(path_without_prefix, mapping_local, mapping_remote)
             ELSE SimpleMapping(path_without_prefix, mapping_remote)

\* Lines 867-954: a path that starts with the marker.
TranslateMarkerPath(local_path, mappings, mapping_local, mapping_remote) ==
    LET path_without_prefix == Replace1(local_path, Marker, <<>>)
        triple == TripleMapping(Normalize(path_without_prefix), mappings)
    IN  IF triple.matched THEN triple.result
        ELSE IF mapping_remote = <<>> THEN <<path_without_prefix, None>>
        ELSE IF mapping_local # <<>>
             THEN AdvancedMapping(path_without_prefix, mapping_local, mapping_remote)
             ELSE SimpleMapping(path_without_prefix, mapping_remote)

\* The pair mapping with the remote prefix taken as configured, without the
\* "/" lines 991-992 put at its end.
LegacyMappingRemoteAsGiven(local_path, mapping_local, mapping_remote) ==
    LET path == Normalize(local_path)
        local_prefix == WithSlash(Normalize(mapping_local))
        remote_prefix == Normalize(mapping_remote)
    IN  IF mapping_local = <<>> \/ mapping_remote = <<>>
        THEN <<local_path, None>>
        ELSE IF StartsWith(path, local_prefix)
             THEN <<Replace1(path, local_prefix, remote_prefix), None>>
             ELSE <<path, None>>

\* Lines 978-1002: the pair mapping on a path without the marker.
LegacyMapping(local_path, mapping_local, mapping_remote) ==
    LET path == Normalize(local_path)
        local_prefix == WithSlash(Normalize(mapping_local))
        remote_prefix == WithSlash(Normalize(mapping_remote))
    IN  IF mapping_local = <<>> \/ mapping_remote = <<>>
        THEN <<local_path, None>>
        ELSE IF StartsWith(path, local_prefix)
             THEN <<Replace1(path, local_prefix, remote_prefix), None>>
             ELSE <<path, None>>

\* Lines 957-1002: a path without the marker.
TranslatePlainPath(local_path, mappings, mapping_local, mapping_remote) ==
    LET triple == TripleMapping(Normalize(local_path), mappings)
    IN  IF triple.matched THEN triple.result
        ELSE LegacyMapping(local_path, mapping_local, mapping_remote)

\* translate_path(local_path) under the configuration given.
TranslatePath(local_path, mappings, mapping_local, mapping_remote) ==
    IF StartsWith(local_path, Marker)
    THEN TranslateMarkerPath(local_path, mappings, mapping_local, mapping_remote)
    ELSE TranslatePlainPath(local_path, mappings, mapping_local, mapping_remote)

MaxRules == 2       \* most rules of self._path_library_mapping
MaxCalls == 1       \* most calls of translate_path

PathA == <<"/", "a">>
PathASlash == <<"/", "a", "/">>
PathAB == <<"/", "a", "/", "b">>
PathC == <<"/", "c", "/">>
FileMkv == <<"f", "i", "l", "e", ".", "m", "k", "v">>

\* A media file under /a/b and the rule /a/:/x/:7.
ExampleTriple ==
    [local |-> <<"/", "a", "/">>, remote |-> <<"/", "x", "/">>, library_id |-> <<"7">>]

ExamplePath == <<"/", "a", "/", "b", "/", "f", "i", "l", "e", ".", "m", "k", "v">>

\* Rules of self._path_library_mapping; the first three match the same paths.
\* The four ways of writing the two prefixes of a rule are there: neither
\* with "/" at its end, both, the local one only, the remote one only.
TriplePool ==
    { [local |-> PathA, remote |-> <<"/", "x">>, library_id |-> <<"7">>],
      [local |-> PathASlash, remote |-> <<"/", "x", "/">>, library_id |-> <<"7">>],
      [local |-> PathAB, remote |-> <<"/", "y">>, library_id |-> <<"8">>],
      [local |-> PathC, remote |-> <<"/", "z", "/">>, library_id |-> <<"9">>],
      [local |-> PathC, remote |-> <<"/", "w">>, library_id |-> <<"5">>],
      [local |-> <<"/", "d">>, remote |-> <<"/", "v", "/">>, library_id |-> <<"6">>] }

\* Values of self._path_mapping_local and of self._path_mapping_remote.
MappingLocalPool == { <<>>, PathA, PathASlash }

MappingRemotePool == { <<>>, <<"/", "m">>, <<"/", "y", "/">> }

\* Paths without the marker: under /a/b, a media file under /a/b, the same
\* with backslashes, under /a/a, under /ab, under /c, under /d with "/" and
\* with backslashes.
PlainPathPool ==
    { PathAB \o <<"/", "f">>,
      PathAB \o <<"/">> \o FileMkv,
      <<"\\", "a", "\\", "b", "\\", "f">>,
      <<"/", "a", "/", "a", "/", "f">>,
      <<"/", "a", "b", "/", "f">>,
      PathC \o <<"f">>,
      <<"/", "d", "/", "f">>,
      <<"\\", "d", "\\", "f">> }

PathPool == PlainPathPool \cup {Marker \o path : path \in PlainPathPool}

InitTranslate ==
    /\ _path_library_mapping \in SeqUpTo(TriplePool, MaxRules)
    /\ _path_mapping_local \in MappingLocalPool
    /\ _path_mapping_remote \in MappingRemotePool
    /\ tr_path = <<>>
    /\ tr_result = <<>>
    /\ tr_calls = 0
    /\ _ignore = <<>>
    /\ MergeIdle
    /\ HostsIdle
    /\ QueueIdle
    /\ LifeIdle(PlexPlugin)

\* One call of translate_path.
TranslatePathCall ==
    /\ tr_calls < MaxCalls
    /\ \E local_path \in PathPool :
          /\ tr_path' = local_path
          /\ tr_result' = TranslatePath(local_path, _path_library_mapping,
                                        _path_mapping_local, _path_mapping_remote)
    /\ tr_calls' = tr_calls + 1
    /\ UNCHANGED <<_path_library_mapping, _path_mapping_local,
                   _path_mapping_remote, _ignore, varsMerge, varsHosts, varsQueue,
                   varsLife>>

NextTranslate == TranslatePathCall

SpecTranslate == InitTranslate /\ [][NextTranslate]_vars

----------------------------------------------------------------------------
(* PlexPartialScan: the scan queue, listen_transfer_complete and *)
(* process_scan_queue *)

MaxEvents == 3      \* most TransferComplete events
MaxDrains == 2      \* most runs of process_scan_queue

\* The id of the delayed job (line 687).
JobId == "Remote_Plex_Scanner_Task"

\* Media types: mediainfo.type.value of the host (MediaType.MOVIE, MediaType.TV,
\* two non-ASCII strings), the types _detect_media_type_from_path returns, and
\* NoType for None.
NoType == "None"
MediaTypeMovie == "MediaType.MOVIE"
MediaTypeTV == "MediaType.TV"

UpperCase == <<"A", "B", "C", "D", "E", "F", "G", "H", "I", "J", "K", "L", "M",
               "N", "O", "P", "Q", "R", "S", "T", "U", "V", "W", "X", "Y", "Z">>

LowerCase == <<"a", "b", "c", "d", "e", "f", "g", "h", "i", "j", "k", "l", "m",
               "n", "o", "p", "q", "r", "s", "t", "u", "v", "w", "x", "y", "z">>

\* str.lower()
Lower(s) ==
    [i \in 1..Len(s) |->
        IF \E k \in 1..26 : UpperCase[k] = s[i]
        THEN LowerCase[CHOOSE k \in 1..26 : UpperCase[k] = s[i]]
        ELSE s[i]]

\* sep.join(parts)
RECURSIVE JoinWith(_, _)
JoinWith(parts, sep) ==
    IF parts = <<>> THEN <<>>
    ELSE IF Len(parts) = 1 THEN parts[1]
    ELSE parts[1] \o sep \o JoinWith(Tail(parts), sep)

\* The extensions of line 779.
MediaExtensions ==
    { <<".", "m", "p", "4">>, <<".", "m", "k", "v">>, <<".", "a", "v", "i">>,
      <<".", "t", "s">>, <<".", "m", "2", "t", "s">> }

\* Lines 779-782: the directory to scan for a translated path.
ScanDir(remote_path) ==
    IF \E ext \in MediaExtensions : EndsWith(remote_path, ext)
    THEN LET parts == SplitOn(remote_path, "/")
         IN  JoinWith(SubSeq(parts, 1, Len(parts) - 1), <<"/">>) \o <<"/">>
    ELSE remote_path

\* _detect_media_type_from_path, for the keywords written in ASCII (the
\* other keywords hold characters no path of the model has).
DetectMediaTypeFromPath(path) ==
    LET path_lower == Lower(path)
    IN  IF \/ Contains(path_lower, <<"/", "m", "o", "v", "i", "e">>)
           \/ Contains(path_lower, <<"/", "m", "o", "v", "i", "e", "s", "/">>)
        THEN "movie"
        ELSE IF Contains(path_lower, <<"/", "a", "n", "i", "m", "e", "/">>)
        THEN "anime"
        ELSE IF \/ Contains(path_lower, <<"/", "t", "v", "/">>)
                \/ Contains(path_lower, <<"/", "s", "e", "r", "i", "e", "s", "/">>)
                \/ Contains(path_lower, <<"/", "s", "h", "o", "w">>)
        THEN "tv"
        ELSE NoType

\* dict.get(key) on a dict kept as a sequence of <<key, value>>; None when
\* the key is missing.
DictGet(dict, key) ==
    IF \E i \in 1..Len(dict) : dict[i][1] = key
    THEN dict[CHOOSE i \in 1..Len(dict) : dict[i][1] = key][2]
    ELSE None

\* type_mapping.get(media_type_lower, media_type_lower), lines 1154-1167;
\* lower() changes none of the media types.
MappedType(media_type) ==
    CASE media_type \in {"movie", MediaTypeMovie, "movies"} -> "movie"
      [] media_type \in {"tv", MediaTypeTV, "series", "show"} -> "tv"
      [] OTHER -> media_type

\* get_library_id
GetLibraryId(media_type, library_mapping) ==
    IF media_type = NoType
    THEN IF library_mapping # <<>> THEN library_mapping[1][2] ELSE None
    ELSE LET library_id == DictGet(library_mapping, MappedType(media_type))
         IN  IF library_id = None \/ library_id = <<>>
             THEN IF library_mapping # <<>> THEN library_mapping[1][2] ELSE library_id
             ELSE library_id

\* get_library_ids
GetLibraryIds(media_type, library_mapping) ==
    IF library_mapping # <<>>
    THEN IF media_type # NoType
         THEN LET library_id == GetLibraryId(media_type, library_mapping)
              IN  IF library_id # None /\ library_id # <<>>
                  THEN <<library_id>> ELSE <<>>
         ELSE [i \in 1..Len(library_mapping) |-> library_mapping[i][2]]
    ELSE <<>>

\* trigger_plex_scan that asks the media-type table before it looks at the
\* library id it was given.
TriggerPlexScanTableFirst(path, media_type, library_id, library_mapping, plex_url, ok) ==
    LET from_table == GetLibraryIds(media_type, library_mapping)
        library_ids == IF from_table # <<>> THEN from_table
                       ELSE IF library_id # None /\ library_id # <<>>
                            THEN <<library_id>> ELSE <<>>
    IN  IF plex_url = <<>>
        THEN [library_ids |-> <<>>, consulted |-> FALSE, success |-> FALSE]
        ELSE [library_ids |-> library_ids, consulted |-> TRUE,
              success |-> library_ids # <<>> /\ ok]

\* trigger_plex_scan: the library ids a rescan is requested for (one HTTP GET
\* each), whether the media-type table was consulted, and the return value.
\* ok: the requests are answered with 200; otherwise each fails (another
\* status, or an exception caught at line 1092).
TriggerPlexScan(path, media_type, library_id, library_mapping, plex_url, ok) ==
    LET given == library_id # None /\ library_id # <<>>
        library_ids == IF given THEN <<library_id>>
                       ELSE GetLibraryIds(media_type, library_mapping)
    IN  IF plex_url = <<>>
        THEN [library_ids |-> <<>>, consulted |-> FALSE, success |-> FALSE]
        ELSE [library_ids |-> library_ids, consulted |-> ~given,
              success |-> library_ids # <<>> /\ ok]

\* The position of scan_dir among the keys of dir_map, 0 when it is no key.
DirIndex(dir_map, scan_dir) ==
    IF \E k \in 1..Len(dir_map) : dir_map[k].scan_dir = scan_dir
    THEN CHOOSE k \in 1..Len(dir_map) : dir_map[k].scan_dir = scan_dir
    ELSE 0

\* Values of the configuration of the queue.
PlexUrl == <<"p">>
RcloneUrl == <<"r">>

\* library_mapping "movie:1,tv:2"
LibraryTable == << <<"movie", <<"1">>>>, <<"tv", <<"2">>>> >>

\* path_library_mapping "/a:/x:7" and "/c/:/z/:9"
QueueRules ==
    << [local |-> PathA, remote |-> <<"/", "x">>, library_id |-> <<"7">>],
       [local |-> PathC, remote |-> <<"/", "z", "/">>, library_id |-> <<"9">>] >>

\* The configurations of the queue: everything configured; no rclone URL
\* and no notification; no path rule and no cache refresh; no media-type
\* table; nothing configured but the notification.
QueueConfigPool ==
    { [path_library_mapping |-> QueueRules, library_mapping |-> LibraryTable,
       plex_url |-> PlexUrl, rclone_rc_url |-> RcloneUrl,
       refresh_rclone |-> TRUE, notify |-> TRUE],
      [path_library_mapping |-> QueueRules, library_mapping |-> LibraryTable,
       plex_url |-> PlexUrl, rclone_rc_url |-> <<>>,
       refresh_rclone |-> TRUE, notify |-> FALSE],
      [path_library_mapping |-> <<>>, library_mapping |-> LibraryTable,
       plex_url |-> PlexUrl, rclone_rc_url |-> RcloneUrl,
       refresh_rclone |-> FALSE, notify |-> TRUE],
      [path_library_mapping |-> QueueRules, library_mapping |-> <<>>,
       plex_url |-> PlexUrl, rclone_rc_url |-> RcloneUrl,
       refresh_rclone |-> TRUE, notify |-> FALSE],
      [path_library_mapping |-> <<>>, library_mapping |-> <<>>,
       plex_url |-> <<>>, rclone_rc_url |-> <<>>,
       refresh_rclone |-> TRUE, notify |-> TRUE] }

QueueMappingPool == {config.path_library_mapping : config \in QueueConfigPool}

\* The target paths and media types of the events: two media files of one
\* directory, a directory, a media file under /tv/ reported as a movie, and
\* the marker alone.
EventPool ==
    { [path |-> ExamplePath, media_type |-> MediaTypeMovie],
      [path |-> PathAB \o <<"/", "g", ".", "t", "s">>, media_type |-> MediaTypeTV],
      [path |-> PathC \o <<"f">>, media_type |-> NoType],
      [path |-> <<"/", "t", "v", "/", "s", ".", "m", "k", "v">>,
       media_type |-> MediaTypeMovie],
      [path |-> Marker, media_type |-> NoType] }

\* Lines 767-787 for one item: the translated path, its library id, the
\* directory to scan and the media type detected from that directory.
TranslatedItem(path, mappings, mapping_local, mapping_remote) ==
    LET result == TranslatePath(path, mappings, mapping_local, mapping_remote)
        scan_dir == ScanDir(result[1])
    IN  [remote_path |-> result[1], library_id |-> result[2],
         scan_dir |-> scan_dir,
         detected_type |-> DetectMediaTypeFromPath(scan_dir)]

\* The target paths of the events.
EventPaths == {e.path : e \in EventPool}

\* TranslatedItem for the paths and the configurations of the queue, computed
\* once.
TranslatedItems ==
    [mappings \in QueueMappingPool |->
        [path \in EventPaths |-> TranslatedItem(path, mappings, <<>>, <<>>)]]

\* Lines 765-802: the first loop of process_scan_queue from item i on;
\* dir_map is kept in insertion order.
RECURSIVE DirMapFrom(_, _, _, _, _, _)
DirMapFrom(queue, i, dir_map, mappings, mapping_local, mapping_remote) ==
    IF i > Len(queue) THEN dir_map
    ELSE LET scan_item == queue[i]
             translated ==
                 IF /\ mapping_local = <<>> /\ mapping_remote = <<>>
                    /\ mappings \in QueueMappingPool /\ scan_item.path \in EventPaths
                 THEN TranslatedItems[mappings][scan_item.path]
                 ELSE TranslatedItem(scan_item.path, mappings, mapping_local,
                                     mapping_remote)
             media_type == IF translated.detected_type # NoType
                           THEN translated.detected_type
                           ELSE scan_item.media_type
             k == DirIndex(dir_map, translated.scan_dir)
             entry == [scan_dir |-> translated.scan_dir, items |-> <<scan_item>>,
                       media_type |-> media_type,
                       library_id |-> translated.library_id]
         IN  IF translated.remote_path = <<>>
             THEN DirMapFrom(queue, i + 1, dir_map, mappings, mapping_local,
                             mapping_remote)
             ELSE DirMapFrom(queue, i + 1,
                             IF k = 0 THEN Append(dir_map, entry)
                             ELSE [dir_map EXCEPT ![k].items = Append(@, scan_item)],
                             mappings, mapping_local, mapping_remote)

\* list.remove(x): the first element equal to x is removed; ValueError when
\* there is none.
ListRemove(list, x) ==
    IF InList(x, list)
    THEN LET at == CHOOSE i \in 1..Len(list) :
                       list[i] = x /\ \A j \in 1..(i - 1) : list[j] # x
         IN  [raised |-> FALSE,
              list |-> SubSeq(list, 1, at - 1) \o SubSeq(list, at + 1, Len(list))]
    ELSE [raised |-> TRUE, list |-> list]

\* What the collaborators do for one directory of a drain.
DirOutcomes == {"ok", "refresh failed", "scan failed", "post_message raises"}

\* Lines 809-853 with a rescan that is skipped when the cache refresh failed.
ProcessDirRefreshGuardsScan(dir_info, scan_item, outcome, cfg, st) ==
    LET refreshes == cfg.refresh_rclone /\ cfg.rclone_rc_url # <<>>
        refresh == [op |-> "refresh", dir |-> dir_info.scan_dir,
                    media_type |-> NoType, library_id |-> None,
                    library_ids |-> <<>>, consulted |-> FALSE,
                    ok |-> outcome # "refresh failed"]
        scan == TriggerPlexScan(dir_info.scan_dir, dir_info.media_type,
                                dir_info.library_id, cfg.library_mapping,
                                cfg.plex_url, outcome # "scan failed")
        call == [op |-> "scan", dir |-> dir_info.scan_dir,
                 media_type |-> dir_info.media_type,
                 library_id |-> dir_info.library_id,
                 library_ids |-> scan.library_ids, consulted |-> scan.consulted,
                 ok |-> scan.success]
        removed == ListRemove(st.queue, scan_item)
    IN  [queue |-> removed.list,
         calls |-> st.calls \o (IF refreshes THEN <<refresh>> ELSE <<>>)
                           \o (IF refreshes /\ ~refresh.ok THEN <<>> ELSE <<call>>),
         messages |-> st.messages,
         raised |-> removed.raised]

\* Lines 809-853 for the directory dir_info under one outcome of the
\* collaborators.  scan_item is the variable of the first loop, bound to the
\* last item of the queue as it was when the run began.  st holds the queue,
\* the calls to the collaborators and the notifications so far; raised: a
\* ValueError of line 849 raised again at line 853, in the handler of line
\* 851, leaves process_scan_queue.
ProcessDir(dir_info, scan_item, outcome, cfg, st) ==
    LET refresh == IF cfg.refresh_rclone /\ cfg.rclone_rc_url # <<>>
                   THEN <<[op |-> "refresh", dir |-> dir_info.scan_dir,
                           media_type |-> NoType, library_id |-> None,
                           library_ids |-> <<>>, consulted |-> FALSE,
                           ok |-> outcome # "refresh failed"]>>
                   ELSE <<>>
        scan == TriggerPlexScan(dir_info.scan_dir, dir_info.media_type,
                                dir_info.library_id, cfg.library_mapping,
                                cfg.plex_url, outcome # "scan failed")
        call == [op |-> "scan", dir |-> dir_info.scan_dir,
                 media_type |-> dir_info.media_type,
                 library_id |-> dir_info.library_id,
                 library_ids |-> scan.library_ids, consulted |-> scan.consulted,
                 ok |-> scan.success]
        posts == cfg.notify
        post_raises == posts /\ outcome = "post_message raises"
        message == [kind |-> IF scan.success THEN "done" ELSE "failed",
                    dir |-> dir_info.scan_dir]
        removed == ListRemove(st.queue, scan_item)
    IN  [queue |-> removed.list,
         calls |-> st.calls \o refresh \o <<call>>,
         messages |-> IF posts /\ ~post_raises
                      THEN Append(st.messages, message)
                      ELSE st.messages,
         raised |-> removed.raised]

\* Lines 807-853: the second loop of process_scan_queue from directory k on:
\* the states the run can end in, one for every outcome of the collaborators.
RECURSIVE ProcessDirsFrom(_, _, _, _, _)
ProcessDirsFrom(dir_map, k, scan_item, cfg, st) ==
    IF k > Len(dir_map) THEN {st}
    ELSE UNION { LET after == ProcessDir(dir_map[k], scan_item, outcome, cfg, st)
                 IN  IF after.raised THEN {after}
                     ELSE ProcessDirsFrom(dir_map, k + 1, scan_item, cfg, after)
                 : outcome \in DirOutcomes }

\* The directories the run will handle, in the order of dir_map.
DirMap(queue, mappings, mapping_local, mapping_remote) ==
    DirMapFrom(queue, 1, <<>>, mappings, mapping_local, mapping_remote)

\* process_scan_queue: the queue, the calls, the notifications and whether an
\* exception left the method, for every outcome of the collaborators.
ProcessScanQueueResults(queue, mappings, mapping_local, mapping_remote, cfg) ==
    LET st == [queue |-> queue, calls |-> <<>>, messages |-> <<>>, raised |-> FALSE]
    IN  IF queue = <<>> THEN {st}
        ELSE ProcessDirsFrom(DirMap(queue, mappings, mapping_local, mapping_remote),
                             1, queue[Len(queue)], cfg, st)

\* scheduler.add_job(..., id=job_id): ConflictingIdError when the scheduler
\* holds a job of that id.
AddJob(scheduler, job_id) ==
    IF InList(job_id, scheduler.jobs)
    THEN [raised |-> TRUE, scheduler |-> scheduler]
    ELSE [raised |-> FALSE,
          scheduler |-> [scheduler EXCEPT !.jobs = Append(@, job_id)]]

\* Lines 683-698 without the test of existing_job.
ScheduleDrainUnchecked(scheduler) ==
    LET started == IF scheduler.set THEN scheduler
                   ELSE [set |-> TRUE, running |-> TRUE, jobs |-> <<>>]
        added == AddJob(started, JobId)
    IN  [scheduler |-> added.scheduler, add_job_called |-> TRUE,
         error |-> added.raised]

\* Lines 683-698: the scheduler is created when there is none, and the job is
\* added when the scheduler holds no job of that id.
ScheduleDrain(scheduler) ==
    LET started == IF scheduler.set THEN scheduler
                   ELSE [set |-> TRUE, running |-> TRUE, jobs |-> <<>>]
        existing_job == InList(JobId, started.jobs)
        added == AddJob(started, JobId)
    IN  IF ~existing_job
        THEN [scheduler |-> added.scheduler, add_job_called |-> TRUE,
              error |-> added.raised]
        ELSE [scheduler |-> started, add_job_called |-> FALSE, error |-> FALSE]

\* The configuration process_scan_queue reads.
QueueConfig ==
    [refresh_rclone |-> _refresh_rclone, rclone_rc_url |-> _rclone_rc_url,
     library_mapping |-> _library_mapping, plex_url |-> _plex_url,
     notify |-> _notify]

InitQueue ==
    /\ _scan_queue = <<>>
    /\ _scheduler = NoScheduler
    /\ \E config \in QueueConfigPool :
          /\ _path_library_mapping = config.path_library_mapping
          /\ _library_mapping = config.library_mapping
          /\ _plex_url = config.plex_url
          /\ _rclone_rc_url = config.rclone_rc_url
          /\ _refresh_rclone = config.refresh_rclone
          /\ _notify = config.notify
    /\ _path_mapping_local = <<>>
    /\ _path_mapping_remote = <<>>
    /\ now = 0
    /\ event = [kind |-> "none"]
    /\ drain = [phase |-> "none"]
    /\ drains = 0
    /\ attempted = {}
    /\ during = {}
    /\ tr_path = <<>>
    /\ tr_result = <<>>
    /\ tr_calls = 0
    /\ _ignore = <<>>
    /\ localFile = <<>>
    /\ routerHosts = <<>>
    /\ routerBackup = NoFile
    /\ run = [phase |-> "none"]
    /\ runs = 0
    /\ MergeIdle
    /\ LifeIdle(PlexPlugin)

\* listen_transfer_complete for an event that passes the tests of lines
\* 613-666 (plugin enabled, auto scan on, a target path given): the item is
\* appended and the delayed job is scheduled.
ListenTransferComplete ==
    /\ now < MaxEvents
    /\ \E e \in EventPool :
          _scan_queue' = Append(_scan_queue,
                                [path |-> e.path, media_type |-> e.media_type,
                                 time |-> now + 1])
    /\ now' = now + 1
    /\ LET scheduled == ScheduleDrain(_scheduler)
       IN  /\ _scheduler' = scheduled.scheduler
           /\ event' = [kind |-> "TransferComplete",
                        pending_before |-> Len(_scheduler.jobs),
                        add_job_called |-> scheduled.add_job_called,
                        error |-> scheduled.error]
    /\ UNCHANGED <<_library_mapping, _plex_url, _rclone_rc_url, _refresh_rclone,
                   drain, drains, attempted, during, _notify, localFile, routerHosts, routerBackup,
                   run, runs, _ignore, varsMerge, varsPlex, varsLife>>

\* The rescans among the calls of a run that took place at time t.
ScanAttempts(calls, t) ==
    { [dir |-> calls[k].dir, at |-> t] : k \in {j \in 1..Len(calls) : calls[j].op = "scan"} }

\* The delay has passed: the scheduler takes the job out of its store and
\* runs process_scan_queue.
ProcessScanQueue ==
    /\ drains < MaxDrains
    /\ _scheduler.set
    /\ InList(JobId, _scheduler.jobs)
    /\ _scheduler' = [_scheduler EXCEPT !.jobs = ListRemove(@, JobId).list]
    /\ \E result \in ProcessScanQueueResults(_scan_queue, _path_library_mapping,
                                             _path_mapping_local,
                                             _path_mapping_remote, QueueConfig) :
          /\ _scan_queue' = result.queue
          /\ drain' = [phase |-> "done", before |-> _scan_queue,
                       calls |-> result.calls, messages |-> result.messages,
                       raised |-> result.raised]
          /\ attempted' = attempted \cup ScanAttempts(result.calls, now)
    /\ drains' = drains + 1
    /\ UNCHANGED <<_library_mapping, _plex_url, _rclone_rc_url, _refresh_rclone,
                   now, event, during, _notify, localFile, routerHosts, routerBackup,
                   run, runs, _ignore, varsMerge, varsPlex, varsLife>>

NextQueue ==
    \/ ListenTransferComplete
    \/ ProcessScanQueue

SpecQueue == InitQueue /\ [][NextQueue]_vars

----------------------------------------------------------------------------
(* One plugin instance: init_plugin, stop_service, the one-shot job, the   *)
(* event handler with its tests, the connection test and scan_path_api     *)

MaxInits == 2        \* most calls of init_plugin
MaxLifeEvents == 2   \* most TransferComplete events in the life of an instance
MaxLifeDrains == 2   \* most runs of process_scan_queue in the life of an instance
MaxOpers == 1        \* most API calls and connection tests

\* The one-shot jobs: init_plugin gives them no id.
TestJob == "test_connection"
HostsJob == "fetch_and_update_hosts"

\* stop_service: the jobs are removed, the scheduler is shut down and dropped.
\* The scan queue is not touched.
StopServiceResult(scheduler) == NoScheduler

\* A str and a tuple, as arguments of the remote calls.
PyStr(s) == [type |-> "str", value |-> s]
PyTuple(t) == [type |-> "tuple", value |-> t]

\* The configurations of PlexPartialScan given to init_plugin, in parsed
\* form.  plex: "manual" when plex_url and plex_token are filled in, "system"
\* when they are empty and the host has a Plex server, "none" when they are
\* empty and the host has none.
PlexConfig(enabled, onlyonce, auto_scan, notify, plex) ==
    [enabled |-> enabled, onlyonce |-> onlyonce, auto_scan |-> auto_scan,
     notify |-> notify, plex |-> plex, rclone_rc_url |-> RcloneUrl,
     refresh_rclone |-> TRUE, path_library_mapping |-> QueueRules,
     library_mapping |-> LibraryTable]

PlexConfigPool ==
    { PlexConfig(TRUE, TRUE, TRUE, TRUE, "none"),
      PlexConfig(TRUE, TRUE, TRUE, FALSE, "manual"),
      PlexConfig(TRUE, FALSE, TRUE, TRUE, "manual"),
      PlexConfig(TRUE, FALSE, TRUE, FALSE, "system"),
      PlexConfig(FALSE, FALSE, TRUE, TRUE, "manual"),
      PlexConfig(TRUE, FALSE, FALSE, TRUE, "manual"),
      PlexConfig(FALSE, TRUE, TRUE, FALSE, "none") }

\* update_config of lines 247-258: the keys it writes; path_library_mapping,
\* library_mapping, refresh_rclone and plex_server are not among them, and a
\* later init_plugin reads their defaults.
PlexSavedByOneShot(config) ==
    [enabled |-> config.enabled, onlyonce |-> FALSE,
     auto_scan |-> config.auto_scan, notify |-> config.notify, plex |-> "none",
     rclone_rc_url |-> config.rclone_rc_url, refresh_rclone |-> TRUE,
     path_library_mapping |-> <<>>, library_mapping |-> <<>>]

\* _init_plex_from_system: the method returns as soon as it has a Plex server,
\* from the form (lines 185-189) or from the host (192-218); the one-shot
\* block of lines 230-258 is reached only when there is none.
PlexOneShot(config) ==
    LET found == config.plex # "none"
    IN  [found |-> found,
         oneshot |-> ~found /\ (config.enabled \/ config.onlyonce) /\ config.onlyonce]

\* PlexPartialScan.init_plugin(config) for a config that is not empty.
PlexInitPlugin(config, reload) ==
    /\ plugin = PlexPlugin
    /\ inits < MaxInits
    /\ LET init == PlexOneShot(config)
       IN  /\ _plex_url' = IF init.found THEN PlexUrl ELSE <<>>
           /\ _onlyonce' = IF init.oneshot THEN FALSE ELSE config.onlyonce
           /\ _scheduler' = IF init.oneshot
                            THEN [set |-> TRUE, running |-> TRUE, jobs |-> <<TestJob>>]
                            ELSE StopServiceResult(_scheduler)
           /\ saved' = IF init.oneshot THEN PlexSavedByOneShot(config) ELSE config
           /\ oper' = [kind |-> "init_plugin", onlyonce |-> config.onlyonce,
                       reload |-> reload,
                       oneshot_jobs |-> IF init.oneshot THEN 1 ELSE 0]
    /\ _enabled' = config.enabled
    /\ _auto_scan' = config.auto_scan
    /\ _notify' = config.notify
    /\ _rclone_rc_url' = config.rclone_rc_url
    /\ _refresh_rclone' = config.refresh_rclone
    /\ _path_library_mapping' = config.path_library_mapping
    /\ _path_mapping_local' = <<>>
    /\ _path_mapping_remote' = <<>>
    /\ _library_mapping' = config.library_mapping
    /\ inits' = inits + 1
    /\ UNCHANGED <<plugin, _scan_queue, now, event, drain, drains, attempted, during, opers,
                   handled, tr_path, tr_result, tr_calls, localFile, routerHosts,
                   routerBackup, run, runs, _ignore, varsMerge>>

\* The plugin is loaded with the configuration the user has saved.
PlexConfigure ==
    inits = 0 /\ \E config \in PlexConfigPool : PlexInitPlugin(config, FALSE)

\* The host loads the plugin again with the configuration it has persisted.
PlexReload == inits >= 1 /\ PlexInitPlugin(saved, TRUE)

\* The host stops the plugin.
StopService ==
    /\ plugin = PlexPlugin
    /\ inits >= 1
    /\ _scheduler.set
    /\ _scheduler' = StopServiceResult(_scheduler)
    /\ oper' = [kind |-> "stop_service"]
    /\ UNCHANGED <<plugin, _enabled, _auto_scan, _onlyonce, saved, inits, opers,
                   handled, _scan_queue, _library_mapping, _plex_url,
                   _rclone_rc_url, _refresh_rclone, now, event, drain, drains,
                   attempted, during, varsPlex, varsHosts, _ignore, varsMerge>>

\* The events listen_transfer_complete does not queue: no event_data, no
\* transferinfo, no path in target_item and target_diritem.
UnusableEvents == {"no event_data", "no transferinfo", "no target path"}

\* The events of the life of an instance: the media file of the example and a
\* directory, and the events that cannot be used.
LifeEventPool ==
    { [usable |-> TRUE, path |-> ExamplePath, media_type |-> MediaTypeMovie],
      [usable |-> TRUE, path |-> PathC \o <<"f">>, media_type |-> NoType] }
    \cup { [usable |-> FALSE, why |-> why] : why \in UnusableEvents }

\* The tests of lines 613-666.
ListenAcceptsEvent(e, enabled, auto_scan) == enabled /\ auto_scan /\ e.usable

\* listen_transfer_complete, with its tests.
LifeListenTransferComplete ==
    /\ plugin = PlexPlugin
    /\ inits >= 1
    /\ now < MaxLifeEvents
    /\ now' = now + 1
    /\ \E e \in LifeEventPool :
          IF ListenAcceptsEvent(e, _enabled, _auto_scan)
          THEN LET scheduled == ScheduleDrain(_scheduler)
               IN  /\ _scan_queue' = Append(_scan_queue,
                                            [path |-> e.path, media_type |-> e.media_type,
                                             time |-> now + 1])
                   /\ _scheduler' = scheduled.scheduler
                   /\ event' = [kind |-> "TransferComplete",
                                pending_before |-> Len(_scheduler.jobs),
                                add_job_called |-> scheduled.add_job_called,
                                error |-> scheduled.error, usable |-> e.usable]
          ELSE /\ event' = [kind |-> "ignored", usable |-> e.usable,
                            why |-> IF ~_enabled THEN "disabled"
                                    ELSE IF ~_auto_scan THEN "auto scan off"
                                    ELSE e.why]
               /\ UNCHANGED <<_scan_queue, _scheduler>>
    /\ UNCHANGED <<_library_mapping, _plex_url, _rclone_rc_url, _refresh_rclone,
                   drain, drains, attempted, during, varsLife, varsPlex, varsHosts, _ignore,
                   varsMerge>>

\* The items of the queue a run has dealt with: those whose translation is
\* empty (the failure is logged at line 773) and those whose directory the
\* rescan trigger was called for.
HandledBy(queue, calls, mappings) ==
    { queue[i].time :
        i \in { j \in 1..Len(queue) :
                  LET t == TranslatedItems[mappings][queue[j].path]
                  IN  \/ t.remote_path = <<>>
                      \/ \E k \in 1..Len(calls) :
                            calls[k].op = "scan" /\ calls[k].dir = t.scan_dir } }

\* The delay has passed: the job leaves the store and process_scan_queue runs.
LifeProcessScanQueue ==
    /\ plugin = PlexPlugin
    /\ drains < MaxLifeDrains
    /\ InList(JobId, _scheduler.jobs)
    /\ _scheduler' = [_scheduler EXCEPT !.jobs = ListRemove(@, JobId).list]
    /\ \E result \in ProcessScanQueueResults(_scan_queue, _path_library_mapping,
                                             _path_mapping_local,
                                             _path_mapping_remote, QueueConfig) :
          /\ _scan_queue' = result.queue
          /\ drain' = [phase |-> "done", before |-> _scan_queue,
                       calls |-> result.calls, messages |-> result.messages,
                       raised |-> result.raised, notify |-> _notify]
          /\ attempted' = attempted \cup ScanAttempts(result.calls, now)
          /\ handled' = handled \cup HandledBy(_scan_queue, result.calls,
                                               _path_library_mapping)
    /\ drains' = drains + 1
    /\ UNCHANGED <<plugin, _enabled, _auto_scan, _onlyonce, saved, oper, inits,
                   opers, _library_mapping, _plex_url, _rclone_rc_url,
                   _refresh_rclone, now, event, during, varsPlex, varsHosts, _ignore,
                   varsMerge>>

\* test_connection with a notification whatever self._notify is.
TestConnectionAlwaysNotifies(plex_url, rclone_rc_url, notify) ==
    [calls |-> (IF plex_url # <<>> THEN <<"GET /library/sections">> ELSE <<>>)
               \o (IF rclone_rc_url # <<>> THEN <<"POST /rc/noop">> ELSE <<>>),
     messages |-> <<"connection test">>]

\* test_connection: one request to Plex and one to rclone where they are
\* configured, and the notification of lines 1285-1294.
TestConnection(plex_url, rclone_rc_url, notify) ==
    [calls |-> (IF plex_url # <<>> THEN <<"GET /library/sections">> ELSE <<>>)
               \o (IF rclone_rc_url # <<>> THEN <<"POST /rc/noop">> ELSE <<>>),
     messages |-> IF notify THEN <<"connection test">> ELSE <<>>]

\* The one-shot job of PlexPartialScan fires: test_connection.
TestJobRuns ==
    /\ plugin = PlexPlugin
    /\ InList(TestJob, _scheduler.jobs)
    /\ _scheduler' = [_scheduler EXCEPT !.jobs = ListRemove(@, TestJob).list]
    /\ LET test == TestConnection(_plex_url, _rclone_rc_url, _notify)
       IN  oper' = [kind |-> "test_connection", calls |-> test.calls,
                    messages |-> test.messages, notify |-> _notify]
    /\ UNCHANGED <<plugin, _enabled, _auto_scan, _onlyonce, saved, inits, opers,
                   handled, _scan_queue, _library_mapping, _plex_url,
                   _rclone_rc_url, _refresh_rclone, now, event, drain, drains,
                   attempted, during, varsPlex, varsHosts, _ignore, varsMerge>>

\* listen_plugin_action with the action remote_plex_scan, and
\* test_connection_api: test_connection.
TestConnectionCall ==
    /\ plugin = PlexPlugin
    /\ inits >= 1
    /\ _enabled
    /\ opers < MaxOpers
    /\ opers' = opers + 1
    /\ LET test == TestConnection(_plex_url, _rclone_rc_url, _notify)
       IN  oper' = [kind |-> "test_connection", calls |-> test.calls,
                    messages |-> test.messages, notify |-> _notify]
    /\ UNCHANGED <<plugin, _enabled, _auto_scan, _onlyonce, saved, inits, handled,
                   varsQueue, varsPlex, varsHosts, _ignore, varsMerge>>

\* translate_path(path) with no pair mapping, read from the table where the
\* table has it.
TranslatePathOf(path, mappings) ==
    IF mappings \in QueueMappingPool /\ path \in EventPaths
    THEN <<TranslatedItems[mappings][path].remote_path,
           TranslatedItems[mappings][path].library_id>>
    ELSE TranslatePath(path, mappings, <<>>, <<>>)

\* scan_path_api that returns the failure only after its remote calls.
ScanPathApiUnguarded(path, media_type, enabled, mappings, cfg, ok) ==
    LET remote_path == PyTuple(TranslatePathOf(path, mappings))
        scan == TriggerPlexScan(remote_path, media_type, None, cfg.library_mapping,
                                cfg.plex_url, ok)
    IN  [success |-> enabled /\ scan.success,
         calls |-> (IF cfg.rclone_rc_url # <<>>
                    THEN <<[op |-> "refresh", path |-> remote_path]>> ELSE <<>>)
                   \o <<[op |-> "scan", path |-> remote_path, library_id |-> None,
                         library_ids |-> scan.library_ids]>>]

\* scan_path_api(path, media_type): remote_path is the whole value
\* translate_path returns, the tuple of path and library id, and is passed
\* on as it is; trigger_plex_scan gets no library id.
ScanPathApi(path, media_type, enabled, mappings, cfg, ok) ==
    LET remote_path == PyTuple(TranslatePathOf(path, mappings))
        scan == TriggerPlexScan(remote_path, media_type, None, cfg.library_mapping,
                                cfg.plex_url, ok)
    IN  IF ~enabled THEN [success |-> FALSE, calls |-> <<>>]
        ELSE [success |-> scan.success,
              calls |-> (IF cfg.rclone_rc_url # <<>>
                         THEN <<[op |-> "refresh", path |-> remote_path]>> ELSE <<>>)
                        \o <<[op |-> "scan", path |-> remote_path, library_id |-> None,
                              library_ids |-> scan.library_ids]>>]

\* A call of the API /scan_path.
ScanPathApiCall ==
    /\ plugin = PlexPlugin
    /\ inits >= 1
    /\ opers < MaxOpers
    /\ opers' = opers + 1
    /\ \E e \in {x \in LifeEventPool : x.usable}, ok \in BOOLEAN :
          LET result == ScanPathApi(e.path, e.media_type, _enabled,
                                    _path_library_mapping, QueueConfig, ok)
          IN  oper' = [kind |-> "scan_path_api", path |-> e.path,
                       media_type |-> e.media_type, enabled |-> _enabled,
                       success |-> result.success, calls |-> result.calls]
    /\ UNCHANGED <<plugin, _enabled, _auto_scan, _onlyonce, saved, inits, handled,
                   varsQueue, varsPlex, varsHosts, _ignore, varsMerge>>

\* The configurations of ImmortalWrtHosts given to init_plugin.
HostsConfigPool ==
    [enabled : BOOLEAN, onlyonce : BOOLEAN, notify : BOOLEAN]

\* Lines 91-103 of ImmortalWrtHosts.init_plugin: the one-shot job, the flag
\* and the configuration written back.
HostsOneShot(config) ==
    [oneshot |-> config.onlyonce, onlyonce |-> FALSE,
     saved |-> IF config.onlyonce THEN [config EXCEPT !.onlyonce = FALSE] ELSE config]

\* ImmortalWrtHosts.init_plugin(config) for a config that is not empty.
HostsInitPlugin(config, reload) ==
    /\ plugin = HostsPlugin
    /\ inits < MaxInits
    /\ LET init == HostsOneShot(config)
       IN  /\ _onlyonce' = init.onlyonce
           /\ saved' = init.saved
           /\ _scheduler' = [set |-> TRUE, running |-> init.oneshot,
                             jobs |-> IF init.oneshot THEN <<HostsJob>> ELSE <<>>]
           /\ oper' = [kind |-> "init_plugin", onlyonce |-> config.onlyonce,
                       reload |-> reload,
                       oneshot_jobs |-> IF init.oneshot THEN 1 ELSE 0]
    /\ _enabled' = config.enabled
    /\ _notify' = config.notify
    /\ inits' = inits + 1
    /\ UNCHANGED <<plugin, _auto_scan, opers, handled, _scan_queue,
                   _library_mapping, _plex_url, _rclone_rc_url, _refresh_rclone,
                   now, event, drain, drains, attempted, during, localFile, routerHosts,
                   routerBackup, run, runs, _ignore, varsPlex, varsMerge>>

\* The plugin is loaded with the configuration the user has saved.
HostsConfigure ==
    inits = 0 /\ \E config \in HostsConfigPool : HostsInitPlugin(config, FALSE)

\* The host loads the plugin again with the configuration it has persisted.
HostsReload == inits >= 1 /\ HostsInitPlugin(saved, TRUE)

\* The one-shot job of ImmortalWrtHosts fires: fetch_and_update_hosts.
HostsJobRuns ==
    /\ plugin = HostsPlugin
    /\ runs < MaxRuns
    /\ InList(HostsJob, _scheduler.jobs)
    /\ _scheduler' = [_scheduler EXCEPT !.jobs = ListRemove(@, HostsJob).list]
    /\ \E readable \in BOOLEAN, fetchOutcome \in FetchOutcomes,
          updateOutcome \in UpdateOutcomes :
          FetchAndUpdateHosts(readable, fetchOutcome, updateOutcome)
    /\ runs' = runs + 1
    /\ oper' = [kind |-> "fetch_and_update_hosts", notify |-> _notify]
    /\ UNCHANGED <<plugin, _enabled, _auto_scan, _onlyonce, saved, inits, opers,
                   handled, _notify, localFile, _ignore, _scan_queue,
                   _library_mapping, _plex_url, _rclone_rc_url, _refresh_rclone,
                   now, event, drain, drains, attempted, during, varsPlex, varsMerge>>

\* A new instance of one of the two classes, with the values of the class
\* attributes; the files of ImmortalWrtHosts hold one line each.
InitLife ==
    /\ plugin \in {HostsPlugin, PlexPlugin}
    /\ _enabled = FALSE
    /\ _auto_scan = TRUE
    /\ _onlyonce = FALSE
    /\ _notify = FALSE
    /\ saved = [onlyonce |-> FALSE]
    /\ oper = [kind |-> "none"]
    /\ inits = 0
    /\ opers = 0
    /\ handled = {}
    /\ localFile = IF plugin = HostsPlugin THEN FileText(<<Ip1 \o <<" ", "a">>>>) ELSE <<>>
    /\ routerHosts = IF plugin = HostsPlugin THEN FileText(<<Ip9 \o <<" ", "a">>>>) ELSE <<>>
    /\ routerBackup = NoFile
    /\ run = [phase |-> "none"]
    /\ runs = 0
    /\ _ignore = <<>>
    /\ QueueIdle
    /\ PlexIdle
    /\ MergeIdle

NextLife ==
    \/ PlexConfigure
    \/ PlexReload
    \/ StopService
    \/ LifeListenTransferComplete
    \/ LifeProcessScanQueue
    \/ TestJobRuns
    \/ TestConnectionCall
    \/ ScanPathApiCall
    \/ HostsConfigure
    \/ HostsReload
    \/ HostsJobRuns

SpecLife == InitLife /\ [][NextLife]_vars

\* The delayed job fires when its time has come: the scheduler is fair to a
\* run of process_scan_queue that stays pending.
FairSpecLife == SpecLife /\ WF_vars(LifeProcessScanQueue)

----------------------------------------------------------------------------
(* The event handler and a run of process_scan_queue, step by step: the    *)
(* handler runs in the thread of the event manager, the run in a worker of *)
(* the scheduler, and no lock is held around self._scan_queue              *)

MaxStepEvents == 3   \* most TransferComplete events
MaxStepDrains == 2   \* most runs of process_scan_queue

\* A run of process_scan_queue is under way: the scheduler has taken the job
\* out of its store and the method has not returned yet.
DrainInProgress == drain.phase \in {"submitted", "running"}

\* The time stamps of the items of a list.
TimesOf(items) == { items[i].time : i \in 1..Len(items) }

\* The events whose path the rules of the example translate.
StepEventPool ==
    { e \in EventPool : TranslatedItems[QueueRules][e.path].remote_path # <<>> }

\* Lines 672-677 of listen_transfer_complete, after the tests: the append.
StepAppend ==
    /\ event.kind # "appended"
    /\ now < MaxStepEvents
    /\ now' = now + 1
    /\ \E e \in StepEventPool :
          _scan_queue' = Append(_scan_queue,
                                [path |-> e.path, media_type |-> e.media_type,
                                 time |-> now + 1])
    /\ event' = [kind |-> "appended", time |-> now + 1]
    /\ during' = IF DrainInProgress THEN during \cup {now + 1} ELSE during
    /\ UNCHANGED <<_scheduler, _library_mapping, _plex_url, _rclone_rc_url,
                   _refresh_rclone, drain, drains, attempted, varsLife, varsPlex,
                   varsHosts, _ignore, varsMerge>>

\* Lines 679-701 of listen_transfer_complete: the scheduler is created when
\* there is none, and the job is added when get_job finds none.
StepSchedule ==
    /\ event.kind = "appended"
    /\ LET scheduled == ScheduleDrain(_scheduler)
       IN  /\ _scheduler' = scheduled.scheduler
           /\ event' = [kind |-> "TransferComplete", time |-> event.time,
                        pending_before |-> Len(_scheduler.jobs),
                        add_job_called |-> scheduled.add_job_called,
                        error |-> scheduled.error]
    /\ UNCHANGED <<_scan_queue, _library_mapping, _plex_url, _rclone_rc_url,
                   _refresh_rclone, now, drain, drains, attempted, during,
                   varsLife, varsPlex, varsHosts, _ignore, varsMerge>>

\* The delay has passed: the scheduler hands process_scan_queue to a worker
\* and takes the job, whose trigger has no further run time, out of its
\* store.  The earlier run has returned by then.
StepJobFires ==
    /\ ~DrainInProgress
    /\ drains < MaxStepDrains
    /\ InList(JobId, _scheduler.jobs)
    /\ _scheduler' = [_scheduler EXCEPT !.jobs = ListRemove(@, JobId).list]
    /\ drain' = [phase |-> "submitted"]
    /\ drains' = drains + 1
    /\ UNCHANGED <<_scan_queue, _library_mapping, _plex_url, _rclone_rc_url,
                   _refresh_rclone, now, event, attempted, during, varsLife,
                   varsPlex, varsHosts, _ignore, varsMerge>>

\* Lines 756-802 of process_scan_queue: the test of the queue, the copy
\* self._scan_queue[:] and the first loop over the copy, which leaves
\* scan_item bound to the last item of the copy.
StepDrainStart ==
    /\ drain.phase = "submitted"
    /\ LET dir_map == DirMap(_scan_queue, _path_library_mapping,
                             _path_mapping_local, _path_mapping_remote)
       IN  drain' = IF _scan_queue = <<>> \/ dir_map = <<>>
                    THEN [phase |-> "done", before |-> _scan_queue, calls |-> <<>>,
                          messages |-> <<>>, raised |-> FALSE]
                    ELSE [phase |-> "running", before |-> _scan_queue,
                          scan_item |-> _scan_queue[Len(_scan_queue)],
                          dir_map |-> dir_map, k |-> 1, calls |-> <<>>,
                          messages |-> <<>>, raised |-> FALSE]
    /\ UNCHANGED <<_scan_queue, _scheduler, _library_mapping, _plex_url,
                   _rclone_rc_url, _refresh_rclone, now, event, drains, attempted,
                   during, varsLife, varsPlex, varsHosts, _ignore, varsMerge>>

\* Lines 807-853 for the next directory of dir_map: the cache refresh, the
\* rescan, the notification and self._scan_queue.remove(scan_item) on the
\* queue as it is by now.  The run returns after the last directory, and
\* ends when the remove raises.
StepDrainDir ==
    /\ drain.phase = "running"
    /\ \E outcome \in DirOutcomes :
          LET dir_info == drain.dir_map[drain.k]
              after == ProcessDir(dir_info, drain.scan_item, outcome, QueueConfig,
                                  [queue |-> _scan_queue, calls |-> drain.calls,
                                   messages |-> drain.messages, raised |-> FALSE])
              ends == after.raised \/ drain.k = Len(drain.dir_map)
          IN  /\ _scan_queue' = after.queue
              /\ handled' = handled \cup TimesOf(dir_info.items)
              /\ drain' = IF ends
                           THEN [phase |-> "done", before |-> drain.before,
                                 calls |-> after.calls, messages |-> after.messages,
                                 raised |-> after.raised]
                           ELSE [drain EXCEPT !.k = @ + 1, !.calls = after.calls,
                                              !.messages = after.messages]
    /\ UNCHANGED <<plugin, _enabled, _auto_scan, _onlyonce, saved, oper, inits,
                   opers, _scheduler, _library_mapping, _plex_url, _rclone_rc_url,
                   _refresh_rclone, now, event, drains, attempted, during, varsPlex,
                   varsHosts, _ignore, varsMerge>>

\* PlexPartialScan after init_plugin with the rules and the table of the
\* example, enabled, with auto scan and the cache refresh, without
\* notifications.
InitSteps ==
    /\ _scan_queue = <<>>
    /\ _scheduler = NoScheduler
    /\ _path_library_mapping = QueueRules
    /\ _library_mapping = LibraryTable
    /\ _plex_url = PlexUrl
    /\ _rclone_rc_url = RcloneUrl
    /\ _refresh_rclone = TRUE
    /\ _notify = FALSE
    /\ _path_mapping_local = <<>>
    /\ _path_mapping_remote = <<>>
    /\ now = 0
    /\ event = [kind |-> "none"]
    /\ drain = [phase |-> "none"]
    /\ drains = 0
    /\ attempted = {}
    /\ during = {}
    /\ tr_path = <<>>
    /\ tr_result = <<>>
    /\ tr_calls = 0
    /\ _ignore = <<>>
    /\ localFile = <<>>
    /\ routerHosts = <<>>
    /\ routerBackup = NoFile
    /\ run = [phase |-> "none"]
    /\ runs = 0
    /\ MergeIdle
    /\ LifeIdle(PlexPlugin)

NextSteps ==
    \/ StepAppend
    \/ StepSchedule
    \/ StepJobFires
    \/ StepDrainStart
    \/ StepDrainDir

SpecSteps == InitSteps /\ [][NextSteps]_vars

----------------------------------------------------------------------------
(* Properties of the hosts merge *)

\* The second token of a stripped line.
HostnameOf(text) == ReSplitWhitespace(text)[2]

Max(S) == CHOOSE m \in S : \A n \in S : n <= m

\* Every line a merge can meet: a line of a pool, or a stripped local line.
Lines == LocalPool \cup RemotePool \cup {LocalLineText(l) : l \in LocalPool}

\* Tables of the per-line tests, for each value of self._ignore.
RemoteEligibleLines ==
    [cfg \in IgnorePool |->
        {l \in Lines : RemoteLineEligible(l, IgnoreList(cfg))}]

LocalEligibleLines ==
    [cfg \in IgnorePool |->
        {l \in Lines : LocalLineEligible(l, IgnoreList(cfg))}]

\* The hostname the second loop reads from a local line.
HostnameOfLine ==
    [l \in {x \in Lines : Len(ReSplitWhitespace(LocalLineText(x))) >= 2} |->
        HostnameOf(LocalLineText(l))]

\* The hostname the first loop reads from a remote line.
RemoteHostnameOfLine ==
    [l \in {x \in Lines : Len(ReSplitWhitespace(Strip(x))) >= 2} |->
        HostnameOf(Strip(l))]

\* The indices of the eligible remote lines with hostname h.
RemoteIndicesOf(h) ==
    {i \in 1..Len(remote_hosts) :
        /\ remote_hosts[i] \in RemoteEligibleLines[_ignore]
        /\ RemoteHostnameOfLine[remote_hosts[i]] = h}

\* The indices of the eligible local lines with hostname h.
LocalIndicesOf(h) ==
    {j \in 1..Len(local_hosts) :
        /\ local_hosts[j] \in LocalEligibleLines[_ignore]
        /\ HostnameOfLine[local_hosts[j]] = h}

\* The keys of the local update map.
UpdateHostnames ==
    {HostnameOfLine[local_hosts[j]] :
        j \in {k \in 1..Len(local_hosts) :
                  local_hosts[k] \in LocalEligibleLines[_ignore]}}

\* The text the update map holds for h: that of its last eligible local line.
UpdateText(h) == LocalLineText(local_hosts[Max(LocalIndicesOf(h))])

\* The indices of the output the merge wrote: those past the remote lines,
\* and those whose line differs from the remote line.
WrittenIndices ==
    {p \in 1..Len(merged_hosts) :
        p > Len(remote_hosts) \/ merged_hosts[p] # remote_hosts[p]}

\* C1: the first len(R) lines of the output are the lines of R, in order and
\* verbatim, except at the indices the remote hostname index records for a
\* hostname of the local update map.
C1_RemoteLinesPreserved ==
    merges >= 1 =>
        /\ Len(merged_hosts) >= Len(remote_hosts)
        /\ \A i \in 1..Len(remote_hosts) :
              \/ merged_hosts[i] = remote_hosts[i]
              \/ \E h \in UpdateHostnames :
                    RemoteIndicesOf(h) # {} /\ i = Max(RemoteIndicesOf(h))

\* A comment or a blank line stayed where it was, next to an overwritten line.
C1_Witness ==
    /\ merges >= 1
    /\ \E i, k \in 1..Len(remote_hosts) :
          /\ ~RemoteLineIsEntry(remote_hosts[i])
          /\ merged_hosts[i] = remote_hosts[i]
          /\ merged_hosts[k] # remote_hosts[k]

\* C2: for each hostname h of the local update map, the text of its last
\* local line replaces the last eligible remote line of h and nothing else
\* (earlier remote lines of h stay, nothing is appended for h); when R has no
\* eligible line of h, the text is appended once, past the lines of R.
C2_UpdateOrAppend ==
    merges >= 1 =>
        \A h \in UpdateHostnames :
            LET appended == {p \in (Len(remote_hosts) + 1)..Len(merged_hosts) :
                                merged_hosts[p] = UpdateText(h)}
            IN  IF RemoteIndicesOf(h) # {}
                THEN /\ merged_hosts[Max(RemoteIndicesOf(h))] = UpdateText(h)
                     /\ \A i \in RemoteIndicesOf(h) \ {Max(RemoteIndicesOf(h))} :
                           merged_hosts[i] = remote_hosts[i]
                     /\ appended = {}
                ELSE Cardinality(appended) = 1

\* Two eligible remote lines of one hostname, two local lines of it: the
\* later remote line now holds the later local text, the earlier one stayed.
C2_Witness ==
    /\ merges >= 1
    /\ \E h \in UpdateHostnames :
          /\ Cardinality(RemoteIndicesOf(h)) = 2
          /\ Cardinality(LocalIndicesOf(h)) = 2
          /\ merged_hosts[Max(RemoteIndicesOf(h))] # remote_hosts[Max(RemoteIndicesOf(h))]
          /\ local_hosts[Max(LocalIndicesOf(h))] # UpdateText(h)

\* C3: the length of the output is len(R) plus the number of hostnames of the
\* local update map that no eligible line of R has.
C3_MergedLength ==
    merges >= 1 =>
        Len(merged_hosts) =
            Len(remote_hosts)
            + Cardinality({h \in UpdateHostnames : RemoteIndicesOf(h) = {}})

\* One local hostname was overwritten in place and another one appended.
C3_Witness ==
    /\ merges >= 1
    /\ Len(merged_hosts) = Len(remote_hosts) + 1
    /\ \E h \in UpdateHostnames : RemoteIndicesOf(h) # {}
    /\ Cardinality(UpdateHostnames) = 2

\* C4: the merge is idempotent: merging the same local lines into the output
\* of the merge returns that output, line for line.
C4_Idempotent ==
    merges >= 2 => merged_hosts = remote_hosts

\* The lines that contain an ignore token, for each value of self._ignore.
LinesWithIgnoreToken ==
    [cfg \in IgnorePool |->
        {l \in Lines : \E k \in 1..Len(IgnoreList(cfg)) :
                          Contains(l, IgnoreList(cfg)[k])}]

\* The lines whose first or second token is an ignore token.
LinesOfIgnoredToken ==
    [cfg \in IgnorePool |->
        {l \in Lines :
            LET parts == ReSplitWhitespace(Strip(l))
            IN  \/ InList(parts[1], IgnoreList(cfg))
                \/ (Len(parts) >= 2 /\ InList(parts[2], IgnoreList(cfg)))}]

\* C5: a local line that contains an ignore token is never written into the
\* output, and a remote line whose first or second token is an ignore token
\* is never overwritten.
C5_IgnoreRules ==
    merges >= 1 =>
        /\ \A p \in WrittenIndices :
              merged_hosts[p] \notin LinesWithIgnoreToken[_ignore]
        /\ \A i \in 1..Len(remote_hosts) :
              remote_hosts[i] \in LinesOfIgnoredToken[_ignore]
                  => merged_hosts[i] = remote_hosts[i]

\* The ignore list holds "ig" and "1.1.1.9"; a local line of hostname "big"
\* was left out, a remote line with address 1.1.1.9 stayed although a local
\* line of its hostname was merged, and a remote line of hostname "ig" stayed.
C5_Witness ==
    /\ merges >= 1
    /\ _ignore # <<>>
    /\ \E j \in 1..Len(local_hosts) :
          /\ local_hosts[j] \in LinesWithIgnoreToken[_ignore]
          /\ LocalLineText(local_hosts[j]) \in LocalEligibleLines[<<>>]
    /\ \E i \in 1..Len(remote_hosts) :
          /\ remote_hosts[i] \in LinesOfIgnoredToken[_ignore]
          /\ RemoteHostnameOfLine[remote_hosts[i]] \in UpdateHostnames
    /\ \E p \in WrittenIndices : p > Len(remote_hosts)

\* The lines whose first token is a loopback or an IPv6 address.
LoopbackOrIPv6Lines ==
    {l \in Lines :
        LET ip == ReSplitWhitespace(LocalLineText(l))[1]
        IN  IsIPv4Loopback(ip) \/ IsIPv6(ip)}

\* C6: a local line whose address is loopback or IPv6 is never written into
\* the output, and a remote line whose address is loopback or IPv6 keeps its
\* index and its text.
C6_LoopbackAndIPv6 ==
    merges >= 1 =>
        /\ \A p \in WrittenIndices : merged_hosts[p] \notin LoopbackOrIPv6Lines
        /\ \A i \in 1..Len(remote_hosts) :
              remote_hosts[i] \in LoopbackOrIPv6Lines
                  => merged_hosts[i] = remote_hosts[i]

\* No ignore token is configured; a local IPv6 line was left out, and a
\* remote loopback line stayed while a local line of its hostname was
\* appended.
C6_Witness ==
    /\ merges >= 1
    /\ _ignore = <<>>
    /\ \E j \in 1..Len(local_hosts) : local_hosts[j] \in LoopbackOrIPv6Lines
    /\ \E i \in 1..Len(remote_hosts) :
          /\ remote_hosts[i] \in LoopbackOrIPv6Lines
          /\ RemoteHostnameOfLine[remote_hosts[i]] \in UpdateHostnames
          /\ merged_hosts[i] = remote_hosts[i]
    /\ Len(merged_hosts) = Len(remote_hosts) + 1

----------------------------------------------------------------------------
(* Properties of a run of fetch_and_update_hosts *)

\* C7: when fetching the remote hosts file fails, the run aborts: it issues
\* neither the backup command nor the overwrite of /etc/hosts.
C7_FetchFailureAborts ==
    (run.phase # "none" /\ run.phase # "local failed" /\ run.fetch = "failed") =>
        /\ ~InList(CmdBackup, run.commands)
        /\ ~InList(CmdWrite, run.commands)

\* C8: when the local hosts source yields no lines, the run sends no command
\* to the router, merges nothing, leaves the router's file alone and posts
\* the failure message exactly when notifications are enabled.
C8_NoLocalHostsShortCircuits ==
    (run.phase # "none" /\ run.local = <<>>) =>
        /\ run.commands = <<>>
        /\ run.merged = <<>>
        /\ routerHosts = run.before
        /\ run.messages = IF _notify THEN <<MsgLocalFailed>> ELSE <<>>

\* The local file could not be read or was empty while the router's file had
\* lines, and the failure was notified.
C8_Witness ==
    /\ run.phase = "local failed"
    /\ routerHosts # <<>>
    /\ run.messages = <<MsgLocalFailed>>

----------------------------------------------------------------------------
(* Properties of translate_path *)

\* The path the rules are matched against: the argument without the marker,
\* with "/" for every "\".
MatchedPath ==
    Normalize(IF StartsWith(tr_path, Marker)
              THEN SubSeq(tr_path, Len(Marker) + 1, Len(tr_path))
              ELSE tr_path)

\* The rules of the configuration that match the path, by position.
MatchingRules ==
    {k \in 1..Len(_path_library_mapping) :
        LET local == Normalize(_path_library_mapping[k].local)
        IN  \/ MatchedPath = local
            \/ StartsWith(MatchedPath, WithSlash(local))}

\* The pair mapping is configured and its local prefix starts the path.
PairMappingApplies ==
    /\ _path_mapping_local # <<>>
    /\ _path_mapping_remote # <<>>
    /\ StartsWith(MatchedPath, WithSlash(Normalize(_path_mapping_local)))

\* C10: when some triple rule matches the path, the result is that of the
\* first matching rule in configuration order (its remote prefix in place of
\* its local prefix, its library id), whatever pair or single mapping is
\* configured; a result without a matching triple rule has no library id.
C10_TriplePriority ==
    tr_calls >= 1 =>
        IF MatchingRules # {}
        THEN LET rule == _path_library_mapping[
                            CHOOSE k \in MatchingRules :
                                \A j \in MatchingRules : k <= j]
             IN  tr_result =
                     <<Normalize(rule.remote)
                         \o SubSeq(MatchedPath, Len(Normalize(rule.local)) + 1,
                                   Len(MatchedPath)),
                       rule.library_id>>
        ELSE tr_result[2] = None

\* Two rules match and the pair mapping applies as well; the result carries
\* the library id of the first rule.
C10_Witness ==
    /\ tr_calls >= 1
    /\ Cardinality(MatchingRules) = 2
    /\ _path_library_mapping[1].library_id # _path_library_mapping[2].library_id
    /\ PairMappingApplies
    /\ tr_result[2] = _path_library_mapping[1].library_id

\* The first rule, in configuration order, that matches the path.
FirstMatchingRule ==
    _path_library_mapping[CHOOSE k \in MatchingRules : \A j \in MatchingRules : k <= j]

\* C11: for a path that starts with the marker and whose remainder (marker
\* stripped, "/" for every "\") matches a triple rule, translate_path returns
\* the remainder with its leading local prefix replaced once by the remote
\* prefix, and the library id of the rule; the marker in front of
\* /a/b/file.mkv with the rule (/a/, /x/, 7) gives (/x/b/file.mkv, 7).
C11_MarkerTripleRule ==
    (tr_calls >= 1 /\ StartsWith(tr_path, Marker) /\ MatchingRules # {}) =>
        LET local == Normalize(FirstMatchingRule.local)
            rest == SubSeq(MatchedPath, Len(local) + 1, Len(MatchedPath))
        IN  /\ MatchedPath = local \o rest
            /\ tr_result = <<Normalize(FirstMatchingRule.remote) \o rest,
                             FirstMatchingRule.library_id>>
            /\ (tr_path = Marker \o ExamplePath /\ FirstMatchingRule = ExampleTriple) =>
                   tr_result = <<<<"/", "x", "/", "b", "/", "f", "i", "l", "e",
                                   ".", "m", "k", "v">>, <<"7">>>>

\* The example of the claim.
C11_Witness ==
    /\ tr_calls >= 1
    /\ tr_path = Marker \o ExamplePath
    /\ MatchingRules # {}
    /\ FirstMatchingRule = ExampleTriple
    /\ tr_result[2] = <<"7">>

\* C12: for a path without the marker, with no triple rule and a pair mapping
\* configured, whose normalised form starts with the local prefix (ending
\* with "/"), translate_path returns the path with that prefix replaced once
\* by the remote prefix (ending with "/") and no library id; /a/b/file.mkv
\* with the pair (/a/, /y/) gives (/y/b/file.mkv, absent).
C12_PairMapping ==
    (/\ tr_calls >= 1
     /\ ~StartsWith(tr_path, Marker)
     /\ _path_library_mapping = <<>>
     /\ PairMappingApplies) =>
        LET local == WithSlash(Normalize(_path_mapping_local))
            remote == WithSlash(Normalize(_path_mapping_remote))
            rest == SubSeq(MatchedPath, Len(local) + 1, Len(MatchedPath))
        IN  /\ tr_result = <<remote \o rest, None>>
            /\ remote[Len(remote)] = "/"
            /\ (/\ tr_path = ExamplePath
                /\ _path_mapping_local = <<"/", "a", "/">>
                /\ _path_mapping_remote = <<"/", "y", "/">>) =>
                   tr_result = <<<<"/", "y", "/", "b", "/", "f", "i", "l", "e",
                                   ".", "m", "k", "v">>, None>>

\* Prefixes configured without the final "/": the result has the "/" between
\* the remote prefix and the rest of the path.
C12_Witness ==
    /\ tr_calls >= 1
    /\ ~StartsWith(tr_path, Marker)
    /\ _path_library_mapping = <<>>
    /\ _path_mapping_local = <<"/", "a">>
    /\ _path_mapping_remote = <<"/", "m">>
    /\ tr_result[1] = <<"/", "m", "/", "b", "/", "f">>

\* The argument without the marker, its separators as given.
Remainder ==
    IF StartsWith(tr_path, Marker)
    THEN SubSeq(tr_path, Len(Marker) + 1, Len(tr_path))
    ELSE tr_path

\* No triple rule, no pair mapping, no single remote prefix.
NoMappingConfigured ==
    /\ _path_library_mapping = <<>>
    /\ _path_mapping_local = <<>>
    /\ _path_mapping_remote = <<>>

\* C13 as stated: with no mapping configured at all, translate_path returns
\* the input path unchanged and no library id, for every input, also for one
\* that starts with the marker.
C13_NoMappingUnchanged ==
    (tr_calls >= 1 /\ NoMappingConfigured) => tr_result = <<tr_path, None>>

\* C13 as amended: with no mapping configured at all, translate_path returns
\* no library id and the input path unchanged, except that the marker at the
\* start of the input is removed; the separators stay as given.
C13_NoMappingRemainder ==
    (tr_calls >= 1 /\ NoMappingConfigured) => tr_result = <<Remainder, None>>

\* A marker path written with backslashes came back without the marker and
\* with its backslashes.
C13_Witness ==
    /\ tr_calls >= 1
    /\ NoMappingConfigured
    /\ tr_path = Marker \o <<"\\", "a", "\\", "b", "\\", "f">>
    /\ tr_result = <<<<"\\", "a", "\\", "b", "\\", "f">>, None>>

\* The single remote prefix is what is configured: every marker path is
\* mapped by it.
SingleMappingApplies ==
    /\ StartsWith(tr_path, Marker)
    /\ _path_mapping_local = <<>>
    /\ _path_mapping_remote # <<>>

\* C14: when mappings are configured and the input matches none of them (no
\* triple rule matches, the local prefix of the pair mapping does not start
\* the path), translate_path returns the input as given, backslashes
\* included, for a marker path the remainder after the marker without any
\* remote prefix, and no library id.
C14_NoMatchUnmodified ==
    (/\ tr_calls >= 1
     /\ ~NoMappingConfigured
     /\ MatchingRules = {}
     /\ ~PairMappingApplies
     /\ ~SingleMappingApplies) => tr_result = <<Remainder, None>>

\* P is a prefix of X that ends where a segment of X ends: the segments of P
\* (a "/" at its end aside) are the first segments of X.
SegmentPrefix(P, X) ==
    LET p == SplitOn(RStripChars(P, {"/"}), "/")
        x == SplitOn(X, "/")
    IN  /\ Len(p) <= Len(x)
        /\ SubSeq(x, 1, Len(p)) = p

\* X with the first Len(P) characters replaced by R.
Rewritten(X, P, R) == R \o SubSeq(X, Len(P) + 1, Len(X))

\* The results the pair mapping gives when its local prefix is taken as
\* matching X: the prefixes as configured or with "/" at the end, the result
\* with or without "/" in front.
PairRewritings(X) ==
    LET locals == {Normalize(_path_mapping_local),
                   WithSlash(Normalize(_path_mapping_local))}
        remotes == {Normalize(_path_mapping_remote),
                    WithSlash(Normalize(_path_mapping_remote))}
        plain == {Rewritten(X, P, R) : P \in locals, R \in remotes}
    IN  plain \cup {<<"/">> \o r : r \in plain} \cup {WithoutLeadingSlash(r) : r \in plain}

\* C15: prefixes are matched at segment boundaries only, for every kind of
\* rule: a result with a library id comes from a triple rule whose local
\* prefix is a segment prefix of the normalised path, and a rule (triple or
\* pair) whose local prefix starts the path as a string without being a
\* segment prefix of it (P = /a, X = /ab/c) does not rewrite the path.
C15_SegmentBoundary ==
    tr_calls >= 1 =>
        /\ tr_result[2] # None =>
               \E k \in 1..Len(_path_library_mapping) :
                   LET rule == _path_library_mapping[k]
                   IN  /\ SegmentPrefix(Normalize(rule.local), MatchedPath)
                       /\ tr_result = <<Rewritten(MatchedPath, Normalize(rule.local),
                                                  Normalize(rule.remote)),
                                        rule.library_id>>
        /\ \A k \in 1..Len(_path_library_mapping) :
               LET rule == _path_library_mapping[k]
               IN  (/\ StartsWith(MatchedPath, Normalize(rule.local))
                    /\ ~SegmentPrefix(Normalize(rule.local), MatchedPath)) =>
                       tr_result # <<Rewritten(MatchedPath, Normalize(rule.local),
                                               Normalize(rule.remote)),
                                     rule.library_id>>
        /\ (/\ _path_mapping_local # <<>>
            /\ _path_mapping_remote # <<>>
            /\ StartsWith(MatchedPath, Normalize(_path_mapping_local))
            /\ ~SegmentPrefix(Normalize(_path_mapping_local), MatchedPath)) =>
               tr_result[1] \notin PairRewritings(MatchedPath)

\* The path /ab/f was translated under a triple rule and a pair mapping that
\* both have the local prefix /a, and was rewritten by neither.
C15_Witness ==
    /\ tr_calls >= 1
    /\ tr_path = <<"/", "a", "b", "/", "f">>
    /\ \E k \in 1..Len(_path_library_mapping) : _path_library_mapping[k].local = PathA
    /\ _path_mapping_local = PathA
    /\ _path_mapping_remote # <<>>
    /\ tr_result = <<tr_path, None>>

----------------------------------------------------------------------------
(* Properties of the scan queue *)

\* C16: at most one delayed job is pending at any time, and a qualifying
\* TransferComplete event that arrives while one is pending appends its item
\* to the queue and leaves the scheduler as it is: no second job, no call of
\* add_job, no error.
C16_AtMostOnePendingJob ==
    [][/\ Len(_scheduler'.jobs) <= 1
       /\ (now' = now + 1 /\ Len(_scheduler.jobs) >= 1) =>
              /\ _scheduler' = _scheduler
              /\ Len(_scan_queue') = Len(_scan_queue) + 1
              /\ SubSeq(_scan_queue', 1, Len(_scan_queue)) = _scan_queue
              /\ ~event'.add_job_called
              /\ ~event'.error]_vars

\* An event arrived while the job was pending; the queue holds its item
\* behind the earlier ones and the scheduler holds the one job.
C16_Witness ==
    /\ event.kind = "TransferComplete"
    /\ event.pending_before = 1
    /\ Len(_scan_queue) >= 2
    /\ _scheduler.jobs = <<JobId>>

\* C17: when process_scan_queue has returned, no item that was in the queue
\* when it started is in the queue any more.
C17_DrainEmptiesQueue ==
    drain.phase = "done" =>
        \A i \in 1..Len(drain.before) : ~InList(drain.before[i], _scan_queue)

\* The directories to scan for the items the latest run started with: for
\* every item whose translation is not empty, the parent directory of a
\* media file, else the translated path.
DrainDirs ==
    IF drain.phase # "done" THEN {}
    ELSE { TranslatedItems[_path_library_mapping][drain.before[i].path].scan_dir :
             i \in { j \in 1..Len(drain.before) :
                       TranslatedItems[_path_library_mapping][drain.before[j].path]
                           .remote_path # <<>> } }

\* The calls of the rescan trigger for directory D in the latest run.
ScansOf(D) ==
    { k \in 1..Len(drain.calls) :
        drain.calls[k].op = "scan" /\ drain.calls[k].dir = D }

\* C18: in a run of process_scan_queue the rescan trigger is called exactly
\* once for every distinct directory of the queued items, however many items
\* translate into it.
C18_OneRescanPerDirectory ==
    drain.phase = "done" =>
        \A D \in DrainDirs : Cardinality(ScansOf(D)) = 1

\* The library id that came with the translation of directory D: that of the
\* first queued item that translates into D.
DirLibraryId(D) ==
    LET of == { j \in 1..Len(drain.before) :
                  LET t == TranslatedItems[_path_library_mapping][drain.before[j].path]
                  IN  t.remote_path # <<>> /\ t.scan_dir = D }
        first == CHOOSE j \in of : \A i \in of : j <= i
    IN  TranslatePath(drain.before[first].path, _path_library_mapping,
                      _path_mapping_local, _path_mapping_remote)[2]

\* C19: when the translation gave a library id for a directory, the rescan of
\* that directory is requested for that library id and no other, whatever the
\* media type and the media-type table; the table is consulted only when the
\* translation gave no library id.
C19_ExplicitLibraryIdFirst ==
    drain.phase = "done" =>
        \A k \in 1..Len(drain.calls) :
            LET call == drain.calls[k]
            IN  call.op = "scan" =>
                    IF DirLibraryId(call.dir) # None
                    THEN /\ ~call.consulted
                         /\ call.library_ids =
                                IF _plex_url # <<>> THEN <<DirLibraryId(call.dir)>>
                                ELSE <<>>
                    ELSE _plex_url # <<>> => call.consulted

\* A directory with library id 7 from its path rule and the media type of a
\* movie, for which the table names library 1, was rescanned in library 7.
C19_Witness ==
    /\ drain.phase = "done"
    /\ _library_mapping = LibraryTable
    /\ \E k \in 1..Len(drain.calls) :
          /\ drain.calls[k].op = "scan"
          /\ drain.calls[k].media_type = MediaTypeMovie
          /\ DirLibraryId(drain.calls[k].dir) = <<"7">>
          /\ drain.calls[k].library_ids = <<<<"7">>>>
          /\ drain.calls[k].ok

\* C20: no exception leaves a scheduled operation: process_scan_queue
\* returns normally, whatever the queue holds and whatever the collaborators
\* answer.
C20_NoExceptionPropagates ==
    drain.phase = "done" => ~drain.raised

\* C21: in a run of process_scan_queue the rescan trigger is called for every
\* distinct directory of the queued items, whatever the cache refresh and the
\* rescan of the other directories answer.
C21_EveryDirectoryRescanned ==
    drain.phase = "done" =>
        \A D \in DrainDirs : ScansOf(D) # {}

\* The calls of the cache refresh for directory D in the latest run.
RefreshesOf(D) ==
    { k \in 1..Len(drain.calls) :
        drain.calls[k].op = "refresh" /\ drain.calls[k].dir = D }

\* C25: in a run of process_scan_queue the cache refresh is called only when
\* the refresh is enabled and an rclone URL is configured, at most once for a
\* directory, and the next call after it is the rescan of the same directory,
\* whatever the refresh answered; when the refresh is enabled and configured,
\* every rescan comes directly after the refresh of its directory.
C25_RefreshThenRescan ==
    drain.phase = "done" =>
        /\ \A k \in 1..Len(drain.calls) :
              drain.calls[k].op = "refresh" =>
                  /\ _refresh_rclone /\ _rclone_rc_url # <<>>
                  /\ Cardinality(RefreshesOf(drain.calls[k].dir)) = 1
                  /\ k < Len(drain.calls)
                  /\ drain.calls[k + 1].op = "scan"
                  /\ drain.calls[k + 1].dir = drain.calls[k].dir
        /\ \A k \in 1..Len(drain.calls) :
              (drain.calls[k].op = "scan" /\ _refresh_rclone /\ _rclone_rc_url # <<>>) =>
                  /\ k > 1
                  /\ drain.calls[k - 1].op = "refresh"
                  /\ drain.calls[k - 1].dir = drain.calls[k].dir

\* The cache refresh of a directory failed and the rescan of that directory
\* was requested after it.
C25_Witness ==
    /\ drain.phase = "done"
    /\ \E k \in 1..(Len(drain.calls) - 1) :
          /\ drain.calls[k].op = "refresh"
          /\ ~drain.calls[k].ok
          /\ drain.calls[k + 1].op = "scan"
          /\ drain.calls[k + 1].dir = drain.calls[k].dir
          /\ drain.calls[k + 1].ok

\* C22: a run of process_scan_queue requests the rescan of a directory that an
\* earlier run has requested already only when an event for a path of that
\* directory was queued after that earlier request.
C22_NoRetry ==
    [][drains' = drains + 1 =>
          \A k \in 1..Len(drain'.calls) :
              drain'.calls[k].op = "scan" =>
                  \A earlier \in attempted :
                      earlier.dir = drain'.calls[k].dir =>
                          \E i \in 1..Len(_scan_queue) :
                              /\ _scan_queue[i].time > earlier.at
                              /\ TranslatedItems[_path_library_mapping][_scan_queue[i].path]
                                     .scan_dir = drain'.calls[k].dir]_vars

----------------------------------------------------------------------------
(* Properties of the translation: the join of the two prefixes *)

\* C27: when a triple rule matches, the result is the remote prefix followed
\* by the part of the path after the local prefix, joined by exactly one "/"
\* whether or not the prefixes of the rule are written with "/" at the end:
\* no segment of the path is merged into the last segment of the remote
\* prefix, and no empty segment comes in between.
C27_SegmentJoin ==
    (tr_calls >= 1 /\ MatchingRules # {}) =>
        LET local == RStripChars(Normalize(FirstMatchingRule.local), {"/"})
            remote == RStripChars(Normalize(FirstMatchingRule.remote), {"/"})
            rest == SubSeq(MatchedPath, Len(local) + 1, Len(MatchedPath))
        IN  tr_result[1] = remote \o rest

----------------------------------------------------------------------------
(* Properties of the life of a plugin instance *)

\* The item queued by the event of time t is in the scan queue.
Queued(t) == \E i \in 1..Len(_scan_queue) : _scan_queue[i].time = t

\* C23: every item a TransferComplete event has queued is in the end dealt
\* with by a run of process_scan_queue (the rescan of its directory is
\* requested, or the failure of its translation is logged), as long as the
\* scheduler runs the delayed job when it is due and runs are left, also
\* when init_plugin or stop_service is called while the job is pending.
C23_EveryQueuedScanRuns ==
    \A t \in 1..MaxLifeEvents :
        Queued(t) ~> (t \in handled \/ drains = MaxLifeDrains)

\* C24: with the notify setting off no operation calls post_message: not the
\* hosts update, not a run of process_scan_queue, not the connection test.
C24_NotifyGuardsPostMessage ==
    /\ (oper.kind = "fetch_and_update_hosts" /\ ~oper.notify) => run.messages = <<>>
    /\ (drain.phase = "done" /\ ~drain.notify) => drain.messages = <<>>
    /\ (oper.kind = "test_connection" /\ ~oper.notify) => oper.messages = <<>>

\* With notify off a run of process_scan_queue has asked for a rescan and the
\* connection test has made its requests.
C24_Witness ==
    /\ drain.phase = "done" /\ ~drain.notify
    /\ \E k \in 1..Len(drain.calls) : drain.calls[k].op = "scan"
    /\ oper.kind = "test_connection" /\ ~oper.notify /\ oper.calls # <<>>
    /\ C24_NotifyGuardsPostMessage

\* C29: a TransferComplete event that arrives while the plugin is disabled or
\* auto-scan is off, or that carries no usable target path, leaves the scan
\* queue and the scheduler as they are; scan_path_api of a disabled plugin
\* makes no remote call and returns a failure.
C29_IgnoredEventChangesNothing ==
    [][ /\ (now' = now + 1 /\ (~_enabled \/ ~_auto_scan \/ ~event'.usable))
            => (_scan_queue' = _scan_queue /\ _scheduler' = _scheduler)
        /\ (oper'.kind = "scan_path_api" /\ ~oper'.enabled)
            => (oper'.calls = <<>> /\ ~oper'.success) ]_vars

\* An event has reached the disabled plugin, and scan_path_api was called on
\* it.
C29_Witness ==
    /\ ~_enabled
    /\ event.kind = "ignored" /\ event.why = "disabled"
    /\ _scan_queue = <<>> /\ ~_scheduler.set
    /\ oper.kind = "scan_path_api" /\ ~oper.enabled
    /\ oper.calls = <<>> /\ ~oper.success

\* C30: after init_plugin with onlyonce set exactly one one-shot job is
\* scheduled, whatever the rest of the configuration is, and the flag is off
\* in memory and in the persisted configuration; init_plugin with the
\* persisted configuration schedules no one-shot job.
C30_OneShotConsumedOnce ==
    oper.kind = "init_plugin" =>
        /\ oper.onlyonce =>
              (oper.oneshot_jobs = 1 /\ ~_onlyonce /\ ~saved.onlyonce)
        /\ (oper.reload /\ ~oper.onlyonce) => oper.oneshot_jobs = 0

\* C28: scan_path_api of an enabled plugin passes the remote path of the
\* translation, a string, to the cache refresh and to the rescan, and the
\* rescan goes to the library the translation names when it names one.
C28_ApiScansAsDrain ==
    (oper.kind = "scan_path_api" /\ oper.enabled) =>
        LET translated == TranslatePathOf(oper.path, _path_library_mapping)
        IN  \A k \in 1..Len(oper.calls) :
                /\ oper.calls[k].path.type = "str"
                /\ oper.calls[k].path.value = translated[1]
                /\ (oper.calls[k].op = "scan" /\ translated[2] # None)
                      => oper.calls[k].library_ids = <<translated[2]>>

----------------------------------------------------------------------------
(* Properties of the handler and the run taken step by step *)

\* The run under way will still ask for the rescan of the directory of the
\* item of time t.
RescanAhead(t) ==
    /\ drain.phase = "running"
    /\ \E j \in drain.k..Len(drain.dir_map) : t \in TimesOf(drain.dir_map[j].items)

\* The item of time t will be looked at again: the handler that appended it
\* has not reached its scheduling yet, the delayed job is pending, or a run
\* has been handed to a worker and has not taken its copy of the queue, or
\* has the item in its copy.
DrainAhead(t) ==
    \/ event.kind = "appended" /\ event.time = t
    \/ InList(JobId, _scheduler.jobs)
    \/ drain.phase = "submitted"
    \/ drain.phase = "running" /\ t \in TimesOf(drain.before)

\* C26: under every interleaving of the steps of listen_transfer_complete
\* with the steps of a run of process_scan_queue, an item appended while a
\* run is in progress is not taken out of the queue unless a rescan of its
\* directory was or will be requested by the run that has it, and does not
\* stay in the queue with no run pending or under way for it.
C26_EnqueueDrainInterleaving ==
    \A t \in during :
        /\ ~Queued(t) => (t \in handled \/ RescanAhead(t))
        /\ Queued(t) => DrainAhead(t)

============================================================================
